---- MODULE Spec2Model ----
(***************************************************************************)
(* NovaFilm: job-completion reconciliation (webhook vs. polling), the      *)
(* credit ledger and the Stripe webhook, modelled from server/routes.ts    *)
(* (src/unnamed/part_007), server/storage.ts and server/services/kie.ts    *)
(* (src/unnamed/part_009).                                                 *)
(*                                                                         *)
(* Every `await` of a handler is a point where other handlers may run, so  *)
(* each handler is a sequence of actions, one per awaited operation,       *)
(* together with the synchronous code that follows it.                     *)
(***************************************************************************)
EXTENDS Integers, Sequences, FiniteSets, Bags

\* ------------------------------------------------------------------ bounds

\* Number of provider callbacks delivered in one behaviour.
MaxDeliveries == 2
\* Ticks the polling loop of the initial job still has before its ceiling.
TicksLeft == 2
\* Number of credit operations and Stripe deliveries in one behaviour.
MaxRequests == 2

\* ------------------------------------------------------- program constants

\* part_007:92 and :110, `pollingInfo.attempts >= 30`
PollCeiling == 30
\* part_007:413, `callbackData.code === 200`
SuccessCode == 200
\* a provider error code (any code other than 200)
ErrorCode == 501
\* part_007:902, `creditsRemaining: 10, // Welcome credits`
WelcomeCredits == 10
\* part_007:1578, :1581, :1584
BasicCredits == 5
ProCredits == 12
MaxPlanCredits == 30

Null == "null"
NoJob == [status |-> "absent"]
NoVideo == [providerVideoUrl |-> "absent"]

Tasks == {"t1", "t2"}
\* The task submitted before the behaviour starts; "t2" is unknown locally.
SubmittedTasks == {"t1"}
Deliveries == 1 .. MaxDeliveries

Users == {"u1", "u2"}
NoUser == [id |-> "absent"]
Requests == 1 .. MaxRequests
Invoices == {"in_1", "in_2"}
NoInvoice == [invoiceId |-> "absent"]

Terminal == {"READY", "FAILED"}

\* ---------------------------------------------------------------- variables

VARIABLES
    jobs,                \* jobs table, keyed by the unique task_id
    videos,              \* videos table, keyed by the unique task_id
    pollingControllers,  \* Map taskId -> entry present?
    poll,                \* per polling loop: pc, attempts, aborted, recordInfo
    wh,                  \* per callback delivery: pc, payload, job read
    writes,              \* history: writes performed per task and path
    whAfter              \* history: Job and Video as a delivery left them

jobVars == <<jobs, videos, pollingControllers, poll, wh, writes, whAfter>>

VARIABLES
    users,               \* users table, keyed by id
    creditsLedger,       \* credits_ledger rows (a bag: the row id is not modelled)
    processedInvoices,   \* processed_invoices table, keyed by invoice id
    stripeEvents,        \* ids of the rows of stripe_events
    req,                 \* per credit operation or Stripe delivery: its progress
    credits0             \* history: creditsRemaining of "u1" in the initial state

billVars == <<users, creditsLedger, processedInvoices, stripeEvents, req, credits0>>

VARIABLES
    rateLimit,           \* Map userId -> { count, resetTime } of rateLimitMiddleware
    now,                 \* Date.now(), in milliseconds
    passLog              \* history: the times at which the limiter called next()

limVars == <<rateLimit, now, passLog>>

vars == <<jobVars, billVars, limVars>>

\* ------------------------------------------------------------ storage.ts

\* DatabaseStorage.getJob
getJob(js, taskId) == js[taskId]

\* DatabaseStorage.updateJobStatus: UPDATE jobs SET status, error_reason
\* WHERE task_id = taskId, with no condition on the current status.  Drizzle
\* leaves out of SET a column whose value is undefined, so a call without
\* errorReason keeps the stored one.  No row: nothing is updated.
updateJobStatus(js, taskId, status, errorReason) ==
    IF js[taskId] = NoJob THEN js
    ELSE [js EXCEPT ![taskId] =
            [@ EXCEPT !.status = status,
                      !.errorReason = IF errorReason = Null THEN @ ELSE errorReason]]

\* DatabaseStorage.updateVideo: UPDATE videos SET ... WHERE task_id = taskId.
updateVideo(vs, taskId, url, resolution, fallbackFlag) ==
    IF vs[taskId] = NoVideo THEN vs
    ELSE [vs EXCEPT ![taskId] =
            [@ EXCEPT !.providerVideoUrl = url,
                      !.resolution = resolution,
                      !.fallbackFlag = fallbackFlag]]

\* ---------------------------------------------------------------- kie.ts

\* Raw callback bodies the provider posts: {code, msg, data: {taskId,
\* info: {resultUrls, resolution}, fallbackFlag}}; a field may be missing.
\* An optional field is the set of its values: {} when it is missing.
CallbackShapes ==
    { [code |-> SuccessCode, msg |-> "success", resultUrls |-> {<<"u1">>},
       resolution |-> {"720p"}, fallbackFlag |-> {}],
      [code |-> SuccessCode, msg |-> "success", resultUrls |-> {<<"u1">>},
       resolution |-> {}, fallbackFlag |-> {TRUE}],
      [code |-> SuccessCode, msg |-> "success", resultUrls |-> {},
       resolution |-> {}, fallbackFlag |-> {}],
      [code |-> ErrorCode, msg |-> "provider failed", resultUrls |-> {},
       resolution |-> {}, fallbackFlag |-> {}] }

RawCallbacks ==
    { [taskId |-> t, body |-> b] : t \in Tasks, b \in CallbackShapes }

\* JavaScript `x || d` on an optional field.
OrElse(opt, d) == IF opt = {} THEN d ELSE CHOOSE v \in opt : TRUE

\* KieAiService.parseCallback
parseCallback(raw) ==
    [code |-> raw.body.code,
     msg |-> raw.body.msg,
     taskId |-> raw.taskId,
     resultUrls |-> OrElse(raw.body.resultUrls, <<>>),
     resolution |-> OrElse(raw.body.resolution, "1080p"),
     fallbackFlag |-> OrElse(raw.body.fallbackFlag, FALSE)]

\* Responses of GET /veo/record-info the polling loop may see: not ready
\* yet, or ready with result URLs.
RecordInfos ==
    { [resultUrls |-> {}, resolution |-> {}, fallbackFlag |-> {}],
      [resultUrls |-> {<<>>}, resolution |-> {}, fallbackFlag |-> {}],
      [resultUrls |-> {<<"u1">>}, resolution |-> {"720p"}, fallbackFlag |-> {}],
      [resultUrls |-> {<<"u1">>}, resolution |-> {}, fallbackFlag |-> {TRUE}] }

NoInfo == [resultUrls |-> {}, resolution |-> {}, fallbackFlag |-> {}]

\* part_007:70, `resultUrls && resultUrls.length > 0`
HasResultUrls(info) == Len(OrElse(info.resultUrls, <<>>)) > 0

\* ------------------------------------------------------------------- Init

NoPayload ==
    [code |-> 0, msg |-> Null, taskId |-> Null, resultUrls |-> <<>>,
     resolution |-> Null, fallbackFlag |-> FALSE]

IdleDelivery ==
    [pc |-> "idle", payload |-> NoPayload, job |-> NoJob, foundJob |-> FALSE]

NoSnapshot == [job |-> NoJob, video |-> NoVideo]

NoWrites == [whStatus |-> 0, pollStatus |-> 0, pollVideo |-> 0]

\* The state after POST /api/create-job was accepted for the submitted
\* tasks (part_007:294-332): Job PROCESSING, Video with the prompt only, a
\* polling loop registered with its next tick scheduled.  The loop has run
\* PollCeiling - TicksLeft ticks that found no result.
SubmittedJob == [userId |-> "u1", status |-> "PROCESSING", errorReason |-> Null]

SubmittedVideo ==
    [providerVideoUrl |-> Null, resolution |-> Null, fallbackFlag |-> FALSE]

\* part_007:136-138: the limiter's Map has no entry for a user it has not
\* counted; the defaults of rateLimitMiddleware, and the 5 of create-job.
NoLimit == [count |-> "absent"]

maxRequests == 5

windowMs == 60000

\* No request has reached the limiter.
RateLimitIdle ==
    /\ rateLimit = [u \in Users |-> NoLimit]
    /\ now = 0
    /\ passLog = <<>>

InitJobs ==
    /\ jobs = [t \in Tasks |-> IF t \in SubmittedTasks THEN SubmittedJob ELSE NoJob]
    /\ videos = [t \in Tasks |-> IF t \in SubmittedTasks THEN SubmittedVideo ELSE NoVideo]
    /\ pollingControllers = [t \in Tasks |-> t \in SubmittedTasks]
    /\ poll = [t \in Tasks |->
                 [pc |-> IF t \in SubmittedTasks THEN "scheduled" ELSE "none",
                  attempts |-> IF t \in SubmittedTasks THEN PollCeiling - TicksLeft ELSE 0,
                  aborted |-> FALSE,
                  lookup |-> "none",
                  info |-> NoInfo,
                  timers |-> IF t \in SubmittedTasks THEN 1 ELSE 0]]
    /\ wh = [d \in Deliveries |-> IdleDelivery]
    /\ writes = [t \in Tasks |-> NoWrites]
    /\ whAfter = [d \in Deliveries |-> NoSnapshot]

\* --------------------------------------------------- startPolling.poll

\* Faulty variant of PollTick: the tick does not test the registry entry
\* and the abort signal.
PollTickUnchecked(t) ==
    /\ poll[t].pc = "scheduled"
    /\ poll' = [poll EXCEPT ![t].pc = "getJob", ![t].attempts = @ + 1,
                            ![t].lookup = "none", ![t].timers = @ - 1]
    /\ UNCHANGED <<jobs, videos, pollingControllers, wh, writes, whAfter>>
    /\ UNCHANGED <<billVars, limVars>>

\* part_007:42-48: a scheduled tick fires (`timers` counts the pending
\* setTimeout callbacks of the task).  It returns at once when the
\* registry has no entry for the task or the controller was aborted;
\* otherwise it counts the attempt and issues getJob.
PollTick(t) ==
    /\ poll[t].pc = "scheduled"
    /\ IF ~pollingControllers[t] \/ poll[t].aborted
       THEN poll' = [poll EXCEPT ![t].pc = "stopped", ![t].timers = @ - 1]
       ELSE poll' = [poll EXCEPT ![t].pc = "getJob", ![t].attempts = @ + 1,
                                 ![t].lookup = "none", ![t].timers = @ - 1]
    /\ UNCHANGED <<jobs, videos, pollingControllers, wh, writes, whAfter>>
    /\ UNCHANGED <<billVars, limVars>>

\* part_007:52-57: getJob resolves; a missing or terminal Job ends the loop
\* and removes the registry entry, otherwise getRecordInfo is issued.
PollGetJob(t) ==
    /\ poll[t].pc = "getJob"
    /\ LET job == getJob(jobs, t) IN
       IF job = NoJob \/ job.status \in Terminal
       THEN /\ pollingControllers' = [pollingControllers EXCEPT ![t] = FALSE]
            /\ poll' = [poll EXCEPT ![t].pc = "stopped"]
       ELSE /\ poll' = [poll EXCEPT ![t].pc = "recordInfo"]
            /\ UNCHANGED pollingControllers
    /\ UNCHANGED <<jobs, videos, wh, writes, whAfter>>
    /\ UNCHANGED <<billVars, limVars>>

\* Faulty variant of PollAfterNoResult: the ceiling is tested with `>`.
PollAfterNoResultLate(p) ==
    IF p.attempts > PollCeiling THEN [p EXCEPT !.pc = "failJob"]
    ELSE [p EXCEPT !.pc = "scheduled", !.timers = @ + 1]

\* Faulty variant of PollAfterNoResult: at the ceiling the loop ends
\* without a status write.
PollAfterNoResultGivesUp(p) ==
    IF p.attempts >= PollCeiling THEN [p EXCEPT !.pc = "delete"]
    ELSE [p EXCEPT !.pc = "scheduled", !.timers = @ + 1]

\* Faulty variant of PollAfterNoResult: below the ceiling the tick is
\* scheduled twice, at the ceiling it is scheduled once more.
PollAfterNoResultReschedules(p) ==
    IF p.attempts >= PollCeiling THEN [p EXCEPT !.pc = "failJob", !.timers = @ + 1]
    ELSE [p EXCEPT !.pc = "scheduled", !.timers = @ + 2]

\* part_007:92-106 and 110-128: what follows a lookup without result URLs
\* (or a failed lookup): at the ceiling the FAILED write is issued,
\* below it the next tick is scheduled (setTimeout(poll, 20000)).
PollAfterNoResult(p) ==
    IF p.attempts >= PollCeiling THEN [p EXCEPT !.pc = "failJob"]
    ELSE [p EXCEPT !.pc = "scheduled", !.timers = @ + 1]

\* part_007:68-70, 92-106: getRecordInfo resolves with a record.
PollRecordInfo(t) ==
    /\ poll[t].pc = "recordInfo"
    /\ \E info \in RecordInfos :
         IF HasResultUrls(info)
         THEN poll' = [poll EXCEPT ![t].pc = "updateVideo", ![t].info = info,
                                   ![t].lookup = "record"]
         ELSE poll' = [poll EXCEPT ![t] = PollAfterNoResult([@ EXCEPT !.lookup = "record"])]
    /\ UNCHANGED <<jobs, videos, pollingControllers, wh, writes, whAfter>>
    /\ UNCHANGED <<billVars, limVars>>

\* part_007:107-129: getRecordInfo throws (kie.ts: response not ok).
PollRecordInfoError(t) ==
    /\ poll[t].pc = "recordInfo"
    /\ poll' = [poll EXCEPT ![t] = PollAfterNoResult([@ EXCEPT !.lookup = "error"])]
    /\ UNCHANGED <<jobs, videos, pollingControllers, wh, writes, whAfter>>
    /\ UNCHANGED <<billVars, limVars>>

\* part_007:72-76: storage.updateVideo with the first result URL.
PollUpdateVideo(t) ==
    /\ poll[t].pc = "updateVideo"
    /\ videos' = updateVideo(videos, t, OrElse(poll[t].info.resultUrls, <<>>)[1],
                             OrElse(poll[t].info.resolution, "1080p"),
                             OrElse(poll[t].info.fallbackFlag, FALSE))
    /\ writes' = [writes EXCEPT ![t].pollVideo = @ + 1]
    /\ poll' = [poll EXCEPT ![t].pc = "readyJob"]
    /\ UNCHANGED <<jobs, pollingControllers, wh, whAfter>>
    /\ UNCHANGED <<billVars, limVars>>

\* part_007:77: storage.updateJobStatus(taskId, 'READY', undefined).
PollReadyJob(t) ==
    /\ poll[t].pc = "readyJob"
    /\ jobs' = updateJobStatus(jobs, t, "READY", Null)
    /\ writes' = [writes EXCEPT ![t].pollStatus = @ + 1]
    /\ poll' = [poll EXCEPT ![t].pc = "delete"]
    /\ UNCHANGED <<videos, pollingControllers, wh, whAfter>>
    /\ UNCHANGED <<billVars, limVars>>

\* part_007:93
TimeoutReason == "Polling timeout - video generation took too long"

\* part_007:111-112: the (truncated) message of the error the lookup threw.
LookupErrorReason == "Kie.ai record-info error"

\* Faulty variant of PollFailJob: the loop gives the credit back when it
\* fails the Job.
PollFailJobRefunding(t) ==
    /\ poll[t].pc = "failJob"
    /\ jobs' = updateJobStatus(jobs, t, "FAILED",
                               IF poll[t].lookup = "error" THEN LookupErrorReason
                               ELSE TimeoutReason)
    /\ writes' = [writes EXCEPT ![t].pollStatus = @ + 1]
    /\ poll' = [poll EXCEPT ![t].pc = "delete"]
    /\ users' = [users EXCEPT !["u1"].creditsRemaining = @ + 1]
    /\ creditsLedger' = creditsLedger (+) SetToBag({[userId |-> "u1", delta |-> 1,
                                                     reason |-> "refund", jobId |-> t]})
    /\ UNCHANGED <<videos, pollingControllers, wh, whAfter>>
    /\ UNCHANGED <<processedInvoices, stripeEvents, req, credits0, limVars>>

\* part_007:93 and :113: storage.updateJobStatus(taskId, 'FAILED', reason)
\* at the attempt ceiling: the timeout reason after a lookup that resolved,
\* the error's message in the catch branch.
PollFailJob(t) ==
    /\ poll[t].pc = "failJob"
    /\ jobs' = updateJobStatus(jobs, t, "FAILED",
                               IF poll[t].lookup = "error" THEN LookupErrorReason
                               ELSE TimeoutReason)
    /\ writes' = [writes EXCEPT ![t].pollStatus = @ + 1]
    /\ poll' = [poll EXCEPT ![t].pc = "delete"]
    /\ UNCHANGED <<videos, pollingControllers, wh, whAfter>>
    /\ UNCHANGED <<billVars, limVars>>

\* part_007:87, :101, :123: pollingControllers.delete(taskId) after the
\* terminal write resolved.
PollDelete(t) ==
    /\ poll[t].pc = "delete"
    /\ pollingControllers' = [pollingControllers EXCEPT ![t] = FALSE]
    /\ poll' = [poll EXCEPT ![t].pc = "stopped"]
    /\ UNCHANGED <<jobs, videos, wh, writes, whAfter>>
    /\ UNCHANGED <<billVars, limVars>>

PollStep(t) ==
    \/ PollTick(t)
    \/ PollGetJob(t)
    \/ PollRecordInfo(t)
    \/ PollRecordInfoError(t)
    \/ PollUpdateVideo(t)
    \/ PollReadyJob(t)
    \/ PollFailJob(t)
    \/ PollDelete(t)

\* ------------------------------------------------ POST /api/veo-callback

\* Faulty variant of WhNeedsUpdate: the status is written only when the Job is READY.
WhNeedsUpdateInverted(job) == job.status = "READY"

\* part_007:412, `job.status !== 'READY'`
WhNeedsUpdate(job) == job.status # "READY"

\* Where the handler continues once it holds a Job (part_007:411-412).
WhAfterJob(job) == IF WhNeedsUpdate(job) THEN "update" ELSE "video"

\* part_007:381-393: the callback is parsed and getJob resolves.
\* Deliveries are numbered in the order of their arrival.
WhGetJob(d) ==
    /\ wh[d].pc = "idle"
    /\ \A e \in Deliveries : e < d => wh[e].pc # "idle"
    /\ \E raw \in RawCallbacks :
         LET cb == parseCallback(raw)
             job == getJob(jobs, cb.taskId)
         IN wh' = [wh EXCEPT ![d] =
                     [pc |-> IF job = NoJob THEN "create" ELSE WhAfterJob(job),
                      payload |-> cb,
                      job |-> job,
                      foundJob |-> job # NoJob]]
    /\ UNCHANGED <<jobs, videos, pollingControllers, poll, writes, whAfter>>
    /\ UNCHANGED <<billVars, limVars>>

\* part_007:396-404: unknown task, storage.createJob with status READY.
UnknownTaskJob == [userId |-> "unknown", status |-> "READY", errorReason |-> Null]

\* part_007:397-408: the insert resolves, or throws (jobs.task_id is
\* unique, jobs.user_id references users.id) and the handler answers 200
\* without a Job.
WhCreateJob(d) ==
    /\ wh[d].pc = "create"
    /\ LET t == wh[d].payload.taskId IN
       \/ /\ jobs[t] = NoJob
          /\ jobs' = [jobs EXCEPT ![t] = UnknownTaskJob]
          /\ wh' = [wh EXCEPT ![d].job = UnknownTaskJob,
                              ![d].pc = WhAfterJob(UnknownTaskJob)]
          /\ UNCHANGED whAfter
       \/ /\ jobs' = jobs
          /\ wh' = [wh EXCEPT ![d].pc = "done"]
          /\ whAfter' = [whAfter EXCEPT ![d] = [job |-> jobs[t], video |-> videos[t]]]
    /\ UNCHANGED <<videos, pollingControllers, poll, writes>>
    /\ UNCHANGED <<billVars, limVars>>

\* part_007:413-419: the status write of a Job read as not READY.
WhUpdateStatus(d) ==
    /\ wh[d].pc = "update"
    /\ LET cb == wh[d].payload IN
       /\ jobs' = IF cb.code = SuccessCode
                  THEN updateJobStatus(jobs, cb.taskId, "READY", Null)
                  ELSE updateJobStatus(jobs, cb.taskId, "FAILED", cb.msg)
       /\ writes' = [writes EXCEPT ![cb.taskId].whStatus = @ + 1]
    /\ wh' = [wh EXCEPT ![d].pc = "abort"]
    /\ UNCHANGED <<videos, pollingControllers, poll, whAfter>>
    /\ UNCHANGED <<billVars, limVars>>

\* Faulty variant of WhAbort: without a registry entry the handler throws
\* and ends in its catch.
WhAbortStrict(d) ==
    /\ wh[d].pc = "abort"
    /\ LET t == wh[d].payload.taskId IN
       IF pollingControllers[t]
       THEN /\ poll' = [poll EXCEPT ![t].aborted = TRUE]
            /\ pollingControllers' = [pollingControllers EXCEPT ![t] = FALSE]
            /\ wh' = [wh EXCEPT ![d].pc = "video"]
            /\ UNCHANGED whAfter
       ELSE /\ UNCHANGED <<poll, pollingControllers>>
            /\ wh' = [wh EXCEPT ![d].pc = "done"]
            /\ whAfter' = [whAfter EXCEPT ![d] = [job |-> jobs[t], video |-> videos[t]]]
    /\ UNCHANGED <<jobs, videos, writes>>
    /\ UNCHANGED <<billVars, limVars>>

\* part_007:421-427: abort the controller registered for the task and
\* remove the registry entry.
WhAbort(d) ==
    /\ wh[d].pc = "abort"
    /\ LET t == wh[d].payload.taskId IN
       IF pollingControllers[t]
       THEN /\ poll' = [poll EXCEPT ![t].aborted = TRUE]
            /\ pollingControllers' = [pollingControllers EXCEPT ![t] = FALSE]
       ELSE UNCHANGED <<poll, pollingControllers>>
    /\ wh' = [wh EXCEPT ![d].pc = "video"]
    /\ UNCHANGED <<jobs, videos, writes, whAfter>>
    /\ UNCHANGED <<billVars, limVars>>

\* part_007:430-451 and :466: with code 200 and a first result URL the
\* Video is updated; with code 200 and no result URL the Job is set FAILED;
\* then the handler answers 200.
WhVideo(d) ==
    /\ wh[d].pc = "video"
    /\ LET cb == wh[d].payload
           t == cb.taskId
       IN /\ IF cb.code = SuccessCode /\ Len(cb.resultUrls) > 0
             THEN /\ videos' = updateVideo(videos, t, cb.resultUrls[1],
                                           cb.resolution, cb.fallbackFlag)
                  /\ UNCHANGED <<jobs, writes>>
             ELSE IF cb.code = SuccessCode
             THEN /\ jobs' = updateJobStatus(jobs, t, "FAILED", "No result URLs")
                  /\ writes' = [writes EXCEPT ![t].whStatus = @ + 1]
                  /\ UNCHANGED videos
             ELSE UNCHANGED <<jobs, videos, writes>>
          /\ whAfter' = [whAfter EXCEPT ![d] = [job |-> jobs'[t], video |-> videos'[t]]]
    /\ wh' = [wh EXCEPT ![d].pc = "done"]
    /\ UNCHANGED <<pollingControllers, poll>>
    /\ UNCHANGED <<billVars, limVars>>

WebhookStep(d) ==
    \/ WhGetJob(d)
    \/ WhCreateJob(d)
    \/ WhUpdateStatus(d)
    \/ WhAbort(d)
    \/ WhVideo(d)

\* ------------------------------------------------- credits (storage.ts)

LedgerEntry(u, delta, reason, jobId) ==
    [userId |-> u, delta |-> delta, reason |-> reason, jobId |-> jobId]

RECURSIVE SumDeltas(_, _)
SumDeltas(ledger, entries) ==
    IF entries = {} THEN 0
    ELSE LET e == CHOOSE x \in entries : TRUE
         IN e.delta * CopiesIn(e, ledger) + SumDeltas(ledger, entries \ {e})

\* Sum of the deltas of a user's ledger rows.
LedgerSum(u) ==
    SumDeltas(creditsLedger, { e \in BagToSet(creditsLedger) : e.userId = u })

\* Faulty variant of insertLedger: the row is inserted twice.
insertLedgerTwice(ledger, entry) == ledger (+) SetToBag({entry}) (+) SetToBag({entry})

insertLedger(ledger, entry) == ledger (+) SetToBag({entry})

NoOp == [kind |-> "none"]

NoEvent == [id |-> Null, type |-> Null]

IdleRequest ==
    [pc |-> "idle", op |-> NoOp, user |-> Null, read |-> 0, locked |-> FALSE,
     staged |-> {}, result |-> Null, response |-> 0]

\* Requests are numbered in the order of their arrival.
Arrives(p) ==
    /\ req[p].pc = "idle"
    /\ \A q \in Requests : q < p => req[q].pc # "idle"

\* PostgreSQL row lock on users.id = u: taken by SELECT ... FOR UPDATE and by
\* UPDATE, held until the transaction ends.  It is free for p when no other
\* transaction holds it.
RowFree(u, p) ==
    \A q \in Requests \ {p} : ~(req[q].locked /\ req[q].user = u)

\* `user.creditsRemaining` as a SELECT reads it (read committed); -1 when
\* there is no row.
ReadCredits(u) == IF users[u] = NoUser THEN -1 ELSE users[u].creditsRemaining

\* SELECT creditsRemaining FROM users WHERE id = r.user FOR UPDATE, by the
\* request p whose record is r.
SelectCreditsForUpdate(p, r) ==
    /\ RowFree(r.user, p)
    /\ req' = [req EXCEPT ![p] =
                 [r EXCEPT !.read = ReadCredits(r.user), !.locked = TRUE]]

\* SELECT creditsRemaining FROM users WHERE id = r.user (no lock).
SelectCredits(p, r) ==
    req' = [req EXCEPT ![p] = [r EXCEPT !.read = ReadCredits(r.user)]]

\* Faulty variant of ConsumeSelect: the balance is read without FOR UPDATE.
ConsumeSelectUnlocked(p, r) == SelectCredits(p, r)

\* storage.ts:195-199: consumeCredits reads the balance FOR UPDATE.
ConsumeSelect(p, r) == SelectCreditsForUpdate(p, r)

\* storage.ts:192-199: consumeCredits(userId, jobId) opens its transaction
\* and locks the user row.
ConsumeBegin(p) ==
    /\ Arrives(p)
    /\ ConsumeSelect(p, [IdleRequest EXCEPT
                           !.pc = "consume",
                           !.op = [kind |-> "consume", jobId |-> p],
                           !.user = "u1"])
    /\ UNCHANGED <<users, creditsLedger, processedInvoices, stripeEvents, credits0, limVars>>
    /\ UNCHANGED jobVars

\* Faulty variant of ConsumeCommit: the balance read is not tested.
ConsumeCommitUnchecked(p) ==
    /\ req[p].pc = "consume"
    /\ RowFree(req[p].user, p)
    /\ users' = [users EXCEPT ![req[p].user].creditsRemaining = req[p].read - 1]
    /\ creditsLedger' =
           insertLedger(creditsLedger,
                        LedgerEntry(req[p].user, -1, "video_generation", req[p].op.jobId))
    /\ req' = [req EXCEPT ![p].pc = "done", ![p].locked = FALSE, ![p].result = "true"]
    /\ UNCHANGED <<processedInvoices, stripeEvents, credits0, limVars>>
    /\ UNCHANGED jobVars

\* storage.ts:201-223: without a user or with less than 1 credit the
\* transaction ends and returns false; otherwise it writes the balance
\* read minus 1, inserts the video_generation row, commits and returns true.
ConsumeCommit(p) ==
    /\ req[p].pc = "consume"
    /\ LET u == req[p].user IN
       IF req[p].read < 1
       THEN /\ req' = [req EXCEPT ![p].pc = "done", ![p].locked = FALSE,
                                  ![p].result = "false"]
            /\ UNCHANGED <<users, creditsLedger>>
       ELSE /\ RowFree(u, p)
            /\ users' = [users EXCEPT ![u].creditsRemaining = req[p].read - 1]
            /\ creditsLedger' =
                   insertLedger(creditsLedger,
                                LedgerEntry(u, -1, "video_generation", req[p].op.jobId))
            /\ req' = [req EXCEPT ![p].pc = "done", ![p].locked = FALSE,
                                  ![p].result = "true"]
    /\ UNCHANGED <<processedInvoices, stripeEvents, credits0, limVars>>
    /\ UNCHANGED jobVars

\* storage.ts:226-232: refundCredits(userId, jobId) opens its transaction
\* and reads the balance without a lock.
RefundBegin(p) ==
    /\ Arrives(p)
    /\ SelectCredits(p, [IdleRequest EXCEPT
                           !.pc = "refund",
                           !.op = [kind |-> "refund", jobId |-> p],
                           !.user = "u1"])
    /\ UNCHANGED <<users, creditsLedger, processedInvoices, stripeEvents, credits0, limVars>>
    /\ UNCHANGED jobVars

\* storage.ts:234-252: without a user nothing is written; otherwise the
\* balance read plus 1 is written, the refund row inserted, and the
\* transaction commits.
RefundCommit(p) ==
    /\ req[p].pc = "refund"
    /\ LET u == req[p].user IN
       IF req[p].read < 0
       THEN /\ req' = [req EXCEPT ![p].pc = "done"]
            /\ UNCHANGED <<users, creditsLedger>>
       ELSE /\ RowFree(u, p)
            /\ users' = [users EXCEPT ![u].creditsRemaining = req[p].read + 1]
            /\ creditsLedger' =
                   insertLedger(creditsLedger,
                                LedgerEntry(u, 1, "refund", req[p].op.jobId))
            /\ req' = [req EXCEPT ![p].pc = "done", ![p].result = "true"]
    /\ UNCHANGED <<processedInvoices, stripeEvents, credits0, limVars>>
    /\ UNCHANGED jobVars

\* storage.ts:172-190: addWelcomeCredits(userId, credits) sets the balance
\* to `credits` and inserts a promo row of delta `credits`, in one
\* transaction.
AddWelcomeCredits(p) ==
    /\ Arrives(p)
    /\ LET u == "u1" IN
       /\ RowFree(u, p)
       /\ users' = [users EXCEPT ![u].creditsRemaining = WelcomeCredits]
       /\ creditsLedger' =
              insertLedger(creditsLedger, LedgerEntry(u, WelcomeCredits, "promo", Null))
       /\ req' = [req EXCEPT ![p] =
                    [IdleRequest EXCEPT !.pc = "done", !.op = [kind |-> "welcome"],
                                        !.user = u, !.result = "true"]]
    /\ UNCHANGED <<processedInvoices, stripeEvents, credits0, limVars>>
    /\ UNCHANGED jobVars

\* A users row as POST /api/auth/register inserts it (part_007:896-905).
RegisteredUser ==
    [creditsRemaining |-> WelcomeCredits, activePlan |-> Null,
     creditsRenewAt |-> Null, stripeSubscriptionId |-> Null,
     stripeCustomerId |-> Null]

\* part_007:853-905: POST /api/auth/register.  An email that already has a
\* password is answered 409; a new one gets a users row.
Register(p) ==
    /\ Arrives(p)
    /\ LET u == "u2" IN
       IF users[u] # NoUser
       THEN /\ req' = [req EXCEPT ![p] =
                         [IdleRequest EXCEPT !.pc = "done", !.op = [kind |-> "register"],
                                             !.user = u, !.response = 409]]
            /\ UNCHANGED users
       ELSE /\ users' = [users EXCEPT ![u] = RegisteredUser]
            /\ req' = [req EXCEPT ![p] =
                         [IdleRequest EXCEPT !.pc = "done", !.op = [kind |-> "register"],
                                             !.user = u, !.response = 200]]
    /\ UNCHANGED <<creditsLedger, processedInvoices, stripeEvents, credits0, limVars>>
    /\ UNCHANGED jobVars

\* ------------------------------------------- POST /api/stripe/webhook

\* Events Stripe delivers.  The billing context (customer, price,
\* subscription, period end) is what getStripeBillingContext extracts from
\* the event and the Stripe API (part_007:1404-1497).
Renewal(id, invoiceId, priceId) ==
    [id |-> id, type |-> "invoice.payment_succeeded", signed |-> TRUE,
     invoiceId |-> invoiceId, billingReason |-> "subscription_cycle",
     amountPaid |-> 1, customerId |-> "cus_1", priceId |-> priceId,
     subscriptionId |-> "sub_1", periodEnd |-> "end_1", metaUserId |-> Null]

OtherEvent(id, type, signed, customerId, metaUserId) ==
    [id |-> id, type |-> type, signed |-> signed,
     invoiceId |-> Null, billingReason |-> Null,
     amountPaid |-> 0, customerId |-> customerId, priceId |-> Null,
     subscriptionId |-> Null, periodEnd |-> Null, metaUserId |-> metaUserId]

StripeDeliveries ==
    { Renewal("evt_1", "in_1", "price_basic"),
      Renewal("evt_2", "in_1", "price_basic"),
      Renewal("evt_2", "in_2", "price_pro"),
      [Renewal("evt_3", "in_2", "price_basic") EXCEPT !.amountPaid = 0],
      [Renewal("evt_3", "in_2", "price_other") EXCEPT !.periodEnd = Null],
      [Renewal("evt_3", "in_2", "price_max") EXCEPT !.customerId = "cus_9"],
      OtherEvent("evt_4", "customer.subscription.deleted", TRUE, "cus_1", Null),
      OtherEvent("evt_5", "checkout.session.completed", TRUE, "cus_2", "u2"),
      [Renewal("evt_6", "in_1", "price_basic") EXCEPT !.type = "invoice.paid"],
      OtherEvent("evt_7", "invoice.paid", FALSE, "cus_1", Null),
      [Renewal("evt_8", "in_2", "price_pro") EXCEPT !.signed = FALSE],
      [Renewal("evt_3", "in_2", "price_basic") EXCEPT !.billingReason = "manual"],
      OtherEvent("evt_9", "customer.subscription.deleted", TRUE, "cus_9", Null),
      OtherEvent("evt_9", "checkout.session.completed", TRUE, "cus_2", Null),
      OtherEvent("evt_9", "customer.created", TRUE, "cus_1", Null) }

\* part_007:1572-1585: the plan of a price id.
MatchedPlan(priceId) ==
    CASE priceId = "price_basic" -> "basic"
      [] priceId = "price_pro" -> "pro"
      [] priceId = "price_max" -> "max"
      [] OTHER -> Null

\* part_007:1649, `stripe_${matchedPlan}_renewal`
RenewalReason(plan) ==
    CASE plan = "basic" -> "stripe_basic_renewal"
      [] plan = "pro" -> "stripe_pro_renewal"
      [] OTHER -> "stripe_max_renewal"

PlanCreditsOf(plan) ==
    CASE plan = "basic" -> BasicCredits
      [] plan = "pro" -> ProCredits
      [] plan = "max" -> MaxPlanCredits
      [] OTHER -> 0

\* Faulty variant of getStripeEvent: no event is ever found.
getStripeEventMiss(events, id) == FALSE

\* storage.getStripeEvent
getStripeEvent(events, id) == id \in events

\* storage.getProcessedInvoice
getProcessedInvoice(invoices, invoiceId) == invoices[invoiceId]

\* storage.getUserByStripeCustomerId: the id of the user, or Null.
getUserByStripeCustomerId(us, customerId) ==
    IF \E u \in Users : us[u] # NoUser /\ us[u].stripeCustomerId = customerId
    THEN CHOOSE u \in Users : us[u] # NoUser /\ us[u].stripeCustomerId = customerId
    ELSE Null

\* The key invoice_id of processed_invoices: an insert waits while another
\* transaction has an uncommitted row with the same key.
InvoiceKeyFree(invoiceId, p) ==
    \A q \in Requests \ {p} :
        ~("invoice" \in req[q].staged /\ req[q].op.event.invoiceId = invoiceId)

\* The key id of stripe_events, likewise.
EventKeyFree(id, p) ==
    \A q \in Requests \ {p} :
        ~("event" \in req[q].staged /\ req[q].op.event.id = id)

\* part_007:1539-1540: only subscription payments of a positive amount.
IsSubscriptionPayment(e) ==
    /\ e.billingReason \in {"subscription_create", "subscription_cycle"}
    /\ e.amountPaid > 0

\* Faulty variant of StripeDispatch: invoice.paid is handled like
\* invoice.payment_succeeded.
StripeDispatchPaidGrants(e) ==
    CASE e.type = "checkout.session.completed" ->
             IF e.customerId # Null /\ e.metaUserId # Null THEN "checkout" ELSE "skip"
      [] e.type \in {"invoice.payment_succeeded", "invoice.paid"} ->
             IF IsSubscriptionPayment(e) THEN "getInvoice" ELSE "recordEvent"
      [] e.type = "customer.subscription.deleted" ->
             IF e.customerId # Null THEN "subDeleted" ELSE "skip"
      [] OTHER -> "recordEvent"

\* part_007:1512-1548, 1670-1719: where the handler goes after the
\* event-id lookup found nothing, by event type.
StripeDispatch(e) ==
    CASE e.type = "checkout.session.completed" ->
             IF e.customerId # Null /\ e.metaUserId # Null THEN "checkout" ELSE "skip"
      [] e.type = "invoice.payment_succeeded" ->
             IF IsSubscriptionPayment(e) THEN "getInvoice" ELSE "recordEvent"
      [] e.type = "customer.subscription.deleted" ->
             IF e.customerId # Null THEN "subDeleted" ELSE "skip"
      [] OTHER -> "recordEvent"

\* Faulty variant of StripeReceive: the signature is not verified.
StripeReceiveUnverified(p) ==
    /\ Arrives(p)
    /\ \E e \in StripeDeliveries :
         LET r == [IdleRequest EXCEPT !.op = [kind |-> "stripe", event |-> e]] IN
         req' = [req EXCEPT ![p] =
                   IF getStripeEvent(stripeEvents, e.id)
                   THEN [r EXCEPT !.pc = "done", !.response = 200]
                   ELSE IF StripeDispatch(e) = "skip"
                   THEN [r EXCEPT !.pc = "done", !.response = 200]
                   ELSE [r EXCEPT !.pc = StripeDispatch(e)]]
    /\ UNCHANGED <<users, creditsLedger, processedInvoices, stripeEvents, credits0, limVars>>
    /\ UNCHANGED jobVars

\* part_007:1386-1505: the signature is verified (400 on failure), then
\* getStripeEvent resolves: a recorded event id is answered 200 at once.
StripeReceive(p) ==
    /\ Arrives(p)
    /\ \E e \in StripeDeliveries :
         LET r == [IdleRequest EXCEPT !.op = [kind |-> "stripe", event |-> e]] IN
         req' = [req EXCEPT ![p] =
                   IF ~e.signed THEN [r EXCEPT !.pc = "done", !.response = 400]
                   ELSE IF getStripeEvent(stripeEvents, e.id)
                   THEN [r EXCEPT !.pc = "done", !.response = 200]
                   ELSE IF StripeDispatch(e) = "skip"
                   THEN [r EXCEPT !.pc = "done", !.response = 200]
                   ELSE [r EXCEPT !.pc = StripeDispatch(e)]]
    /\ UNCHANGED <<users, creditsLedger, processedInvoices, stripeEvents, credits0, limVars>>
    /\ UNCHANGED jobVars

\* storage.createStripeEvent outside a transaction (part_007:1519, 1542,
\* 1554, 1564, 1591, 1603, 1673, 1699, 1714), then 200.  A duplicate id
\* throws, which the outer catch answers 500 (part_007:1722-1725).
StripeRecordEvent(p) ==
    /\ req[p].pc = "recordEvent"
    /\ LET id == req[p].op.event.id IN
       /\ EventKeyFree(id, p)
       /\ IF getStripeEvent(stripeEvents, id)
          THEN /\ req' = [req EXCEPT ![p].pc = "done", ![p].response = 500]
               /\ UNCHANGED stripeEvents
          ELSE /\ stripeEvents' = stripeEvents \cup {id}
               /\ req' = [req EXCEPT ![p].pc = "done", ![p].response = 200]
    /\ UNCHANGED <<users, creditsLedger, processedInvoices, credits0, limVars>>
    /\ UNCHANGED jobVars

\* part_007:1517-1518: storage.updateUserStripeInfo(userId, customerId)
\* sets stripeCustomerId (activePlan and creditsRenewAt are undefined and
\* left out of the UPDATE).
StripeCheckout(p) ==
    /\ req[p].pc = "checkout"
    /\ LET e == req[p].op.event
           u == e.metaUserId
       IN /\ RowFree(u, p)
          /\ users' = IF users[u] = NoUser THEN users
                      ELSE [users EXCEPT ![u].stripeCustomerId = e.customerId]
          /\ req' = [req EXCEPT ![p].pc = "recordEvent", ![p].user = u]
    /\ UNCHANGED <<creditsLedger, processedInvoices, stripeEvents, credits0, limVars>>
    /\ UNCHANGED jobVars

\* part_007:1685-1707: customer.subscription.deleted looks the user up; no
\* user: 200 without recording the event.
StripeSubDeleted(p) ==
    /\ req[p].pc = "subDeleted"
    /\ LET u == getUserByStripeCustomerId(users, req[p].op.event.customerId) IN
       req' = [req EXCEPT ![p] =
                 IF u = Null THEN [@ EXCEPT !.pc = "done", !.response = 200]
                 ELSE [@ EXCEPT !.pc = "clearPlan", !.user = u]]
    /\ UNCHANGED <<users, creditsLedger, processedInvoices, stripeEvents, credits0, limVars>>
    /\ UNCHANGED jobVars

\* Faulty variant of StripeClearPlan: the balance is cleared with the plan.
StripeClearPlanAndCredits(p) ==
    /\ req[p].pc = "clearPlan"
    /\ LET u == req[p].user IN
       /\ RowFree(u, p)
       /\ users' = [users EXCEPT ![u].activePlan = Null,
                                 ![u].creditsRenewAt = Null,
                                 ![u].stripeSubscriptionId = Null,
                                 ![u].creditsRemaining = 0]
    /\ req' = [req EXCEPT ![p].pc = "recordEvent"]
    /\ UNCHANGED <<creditsLedger, processedInvoices, stripeEvents, credits0, limVars>>
    /\ UNCHANGED jobVars

\* part_007:1689-1697: the plan fields are cleared, the credits are not
\* touched.
StripeClearPlan(p) ==
    /\ req[p].pc = "clearPlan"
    /\ LET u == req[p].user IN
       /\ RowFree(u, p)
       /\ users' = [users EXCEPT ![u].activePlan = Null,
                                 ![u].creditsRenewAt = Null,
                                 ![u].stripeSubscriptionId = Null]
    /\ req' = [req EXCEPT ![p].pc = "recordEvent"]
    /\ UNCHANGED <<creditsLedger, processedInvoices, stripeEvents, credits0, limVars>>
    /\ UNCHANGED jobVars

\* part_007:1550-1597: getProcessedInvoice resolves.  A processed invoice,
\* a missing customer or price, or an unrecognized price only records the
\* event.
StripeGetInvoice(p) ==
    /\ req[p].pc = "getInvoice"
    /\ LET e == req[p].op.event IN
       req' = [req EXCEPT ![p].pc =
                 IF getProcessedInvoice(processedInvoices, e.invoiceId) # NoInvoice
                 THEN "recordEvent"
                 ELSE IF e.customerId = Null \/ e.priceId = Null THEN "recordEvent"
                 ELSE IF MatchedPlan(e.priceId) = Null THEN "recordEvent"
                 ELSE "getUser"]
    /\ UNCHANGED <<users, creditsLedger, processedInvoices, stripeEvents, credits0, limVars>>
    /\ UNCHANGED jobVars

\* part_007:1599-1619: getUserByStripeCustomerId resolves; no user: the
\* event is only recorded; otherwise the grant transaction begins.
StripeGetUser(p) ==
    /\ req[p].pc = "getUser"
    /\ LET u == getUserByStripeCustomerId(users, req[p].op.event.customerId) IN
       req' = [req EXCEPT ![p] =
                 IF u = Null THEN [@ EXCEPT !.pc = "recordEvent"]
                 ELSE [@ EXCEPT !.pc = "txInvoice", !.user = u]]
    /\ UNCHANGED <<users, creditsLedger, processedInvoices, stripeEvents, credits0, limVars>>
    /\ UNCHANGED jobVars

\* The transaction of p rolls back and the handler answers 500
\* (part_007:1662-1665).
Rollback(p) ==
    req' = [req EXCEPT ![p].pc = "done", ![p].staged = {}, ![p].locked = FALSE,
                       ![p].result = "rolledBack", ![p].response = 500]

\* Faulty variant of GrantInsertInvoice: the transaction does not mark the invoice.
GrantWithoutInvoiceMark(p) ==
    /\ req' = [req EXCEPT ![p].pc = "txSelect"]
    /\ UNCHANGED processedInvoices

\* Faulty variant of GrantInsertInvoice: the invoice is marked through `db`, outside
\* the transaction, so the row is committed at once.
GrantInvoiceMarkOutsideTx(p) ==
    /\ InvoiceKeyFree(req[p].op.event.invoiceId, p)
    /\ IF processedInvoices[req[p].op.event.invoiceId] # NoInvoice
       THEN /\ Rollback(p)
            /\ UNCHANGED processedInvoices
       ELSE /\ req' = [req EXCEPT ![p].pc = "txSelect"]
            /\ processedInvoices' =
                   [processedInvoices EXCEPT ![req[p].op.event.invoiceId] =
                      [invoiceId |-> req[p].op.event.invoiceId, userId |-> req[p].user,
                       planType |-> MatchedPlan(req[p].op.event.priceId),
                       creditsAdded |-> PlanCreditsOf(MatchedPlan(req[p].op.event.priceId))]]

\* Faulty variant of GrantInsertInvoice: a committed row with the same key
\* does not make the insert throw.
GrantInsertInvoiceNoConflict(p) ==
    /\ InvoiceKeyFree(req[p].op.event.invoiceId, p)
    /\ req' = [req EXCEPT ![p].pc = "txSelect", ![p].staged = @ \cup {"invoice"}]
    /\ UNCHANGED processedInvoices

\* part_007:1621-1626: tx.insert(processedInvoices).  A committed row
\* with the same key makes the insert throw; otherwise the row is staged
\* in the transaction.
GrantInsertInvoice(p) ==
    /\ InvoiceKeyFree(req[p].op.event.invoiceId, p)
    /\ IF processedInvoices[req[p].op.event.invoiceId] # NoInvoice
       THEN Rollback(p)
       ELSE req' = [req EXCEPT ![p].pc = "txSelect",
                               ![p].staged = @ \cup {"invoice"}]
    /\ UNCHANGED processedInvoices

\* First statement of the grant transaction.
StripeTxInvoice(p) ==
    /\ req[p].pc = "txInvoice"
    /\ GrantInsertInvoice(p)
    /\ UNCHANGED <<users, creditsLedger, stripeEvents, credits0, limVars>>
    /\ UNCHANGED jobVars

\* part_007:1629-1632: tx.select of the balance, without a lock.
StripeTxSelect(p) ==
    /\ req[p].pc = "txSelect"
    /\ SelectCredits(p, [req[p] EXCEPT !.pc = "txUpdate"])
    /\ UNCHANGED <<users, creditsLedger, processedInvoices, stripeEvents, credits0, limVars>>
    /\ UNCHANGED jobVars

\* part_007:1634-1643: tx.update(users) takes the row lock and stages the
\* new balance and plan fields.
StripeTxUpdate(p) ==
    /\ req[p].pc = "txUpdate"
    /\ RowFree(req[p].user, p)
    /\ req' = [req EXCEPT ![p].pc = "txEvent", ![p].locked = TRUE,
                          ![p].staged = @ \cup {"user"}]
    /\ UNCHANGED <<users, creditsLedger, processedInvoices, stripeEvents, credits0, limVars>>
    /\ UNCHANGED jobVars

\* part_007:1646-1657: tx.insert(creditsLedger), then tx.insert(stripeEvents),
\* which throws on a committed row with the same id.
StripeTxEvent(p) ==
    /\ req[p].pc = "txEvent"
    /\ EventKeyFree(req[p].op.event.id, p)
    /\ IF getStripeEvent(stripeEvents, req[p].op.event.id)
       THEN Rollback(p)
       ELSE req' = [req EXCEPT ![p].pc = "txCommit",
                               ![p].staged = @ \cup {"ledger", "event"}]
    /\ UNCHANGED <<users, creditsLedger, processedInvoices, stripeEvents, credits0, limVars>>
    /\ UNCHANGED jobVars

TxPcs == {"txInvoice", "txSelect", "txUpdate", "txEvent", "txCommit"}

\* part_007:1662-1665: a statement of the transaction, or its commit,
\* fails (connection lost, statement error): everything staged is rolled
\* back and the handler answers 500.
StripeTxFail(p) ==
    /\ req[p].pc \in TxPcs
    /\ Rollback(p)
    /\ UNCHANGED <<users, creditsLedger, processedInvoices, stripeEvents, credits0, limVars>>
    /\ UNCHANGED jobVars

\* part_007:1612-1615: the renewal date.
RenewAt(e) == IF e.periodEnd # Null THEN e.periodEnd ELSE "now"

\* part_007:1619-1658, 1721: the transaction commits: what it staged becomes
\* visible at once, and the handler answers 200.
StripeTxCommit(p) ==
    /\ req[p].pc = "txCommit"
    /\ LET e == req[p].op.event
           u == req[p].user
           plan == MatchedPlan(e.priceId)
           credits == PlanCreditsOf(plan)
           st == req[p].staged
       IN /\ processedInvoices' =
                 IF "invoice" \in st
                 THEN [processedInvoices EXCEPT ![e.invoiceId] =
                         [invoiceId |-> e.invoiceId, userId |-> u,
                          planType |-> plan, creditsAdded |-> credits]]
                 ELSE processedInvoices
          /\ users' =
                 IF "user" \in st /\ users[u] # NoUser
                 THEN [users EXCEPT ![u].creditsRemaining =
                                        (IF req[p].read < 0 THEN 0 ELSE req[p].read) + credits,
                                    ![u].activePlan = plan,
                                    ![u].creditsRenewAt = RenewAt(e),
                                    ![u].stripeSubscriptionId = e.subscriptionId]
                 ELSE users
          /\ creditsLedger' =
                 IF "ledger" \in st
                 THEN insertLedger(creditsLedger,
                                   LedgerEntry(u, credits, RenewalReason(plan), Null))
                 ELSE creditsLedger
          /\ stripeEvents' = IF "event" \in st THEN stripeEvents \cup {e.id}
                             ELSE stripeEvents
    /\ req' = [req EXCEPT ![p].pc = "done", ![p].staged = {}, ![p].locked = FALSE,
                          ![p].result = "granted", ![p].response = 200]
    /\ UNCHANGED <<credits0, limVars>>
    /\ UNCHANGED jobVars

RequestStep(p) ==
    \/ ConsumeBegin(p)
    \/ ConsumeCommit(p)
    \/ RefundBegin(p)
    \/ RefundCommit(p)
    \/ AddWelcomeCredits(p)
    \/ Register(p)
    \/ StripeReceive(p)
    \/ StripeRecordEvent(p)
    \/ StripeCheckout(p)
    \/ StripeSubDeleted(p)
    \/ StripeClearPlan(p)
    \/ StripeGetInvoice(p)
    \/ StripeGetUser(p)
    \/ StripeTxInvoice(p)
    \/ StripeTxSelect(p)
    \/ StripeTxUpdate(p)
    \/ StripeTxEvent(p)
    \/ StripeTxFail(p)
    \/ StripeTxCommit(p)

\* The state in which the billing operations start: "u1" came through
\* storage.upsertUser (creditsRemaining defaults to 0), was granted its
\* balance as one promo row, and checkout linked it to customer "cus_1";
\* "u2" has not registered yet.
StartBalances == {0, 1}

InitBilling ==
    /\ credits0 \in StartBalances
    /\ users = [u \in Users |->
                  IF u = "u1"
                  THEN [creditsRemaining |-> credits0, activePlan |-> Null,
                        creditsRenewAt |-> Null, stripeSubscriptionId |-> Null,
                        stripeCustomerId |-> "cus_1"]
                  ELSE NoUser]
    /\ creditsLedger = IF credits0 = 0 THEN EmptyBag
                       ELSE SetToBag({LedgerEntry("u1", credits0, "promo", Null)})
    /\ processedInvoices = [i \in Invoices |-> NoInvoice]
    /\ stripeEvents = {}
    /\ req = [p \in Requests |-> IdleRequest]

NextBilling == \E p \in Requests : RequestStep(p)

BillingInit ==
    /\ InitJobs
    /\ InitBilling
    /\ RateLimitIdle

SpecBilling == BillingInit /\ [][NextBilling]_vars

\* ------------------------------------------------------------ reconciler

Next ==
    \/ \E t \in Tasks : PollStep(t)
    \/ \E d \in Deliveries : WebhookStep(d)

\* The reconciler runs with the billing state at rest.
Init ==
    /\ InitJobs
    /\ InitBilling
    /\ credits0 = 1
    /\ RateLimitIdle

Spec == Init /\ [][Next]_vars

\* A replay: the provider redelivers one callback, each delivery handled
\* after the one before it was answered, while the polling loop is
\* suspended (between two ticks, or awaiting a lookup).
SameCallback ==
    \A d, e \in Deliveries :
        (wh[d].pc # "idle" /\ wh[e].pc # "idle") => wh[d].payload = wh[e].payload

NextReplay ==
    \/ /\ \A d \in Deliveries : wh[d].pc = "idle"
       /\ \E t \in Tasks : PollStep(t)
    \/ \E d \in Deliveries :
          /\ \A e \in Deliveries \ {d} : wh[e].pc \in {"idle", "done"}
          /\ WebhookStep(d)
          /\ SameCallback'

SpecReplay == Init /\ [][NextReplay]_vars

\* ------------------------------------------------------------------ claims

IsSuccessWithUrls(cb) == cb.code = SuccessCode /\ Len(cb.resultUrls) > 0

DeliveriesFor(t) == { d \in Deliveries : wh[d].pc # "idle" /\ wh[d].payload.taskId = t }

\* C1 (as claimed): for a Job that was PROCESSING, once a success callback
\* and a polling tick have both run to their end, in any interleaving, the
\* Job is READY, exactly one of the two paths performed the terminal status
\* write, and the other path wrote nothing.
C1_ExactlyOneTerminalWrite ==
    \A t \in SubmittedTasks :
        ( /\ DeliveriesFor(t) # {}
          /\ \A d \in DeliveriesFor(t) :
                wh[d].pc = "done" /\ IsSuccessWithUrls(wh[d].payload)
          /\ poll[t].pc = "stopped"
          /\ (HasResultUrls(poll[t].info) \/ writes[t].pollStatus = 0) )
        => /\ jobs[t].status = "READY"
           /\ writes[t].whStatus + writes[t].pollStatus = 1
           /\ (writes[t].pollStatus = 0 => writes[t].pollVideo = 0)

\* C2 (as claimed): a READY Job is never written to FAILED and a FAILED Job
\* is never written to READY.
C2_NoTerminalRegression ==
    [][\A t \in Tasks :
          /\ (jobs[t].status = "READY" => jobs'[t].status # "FAILED")
          /\ (jobs[t].status = "FAILED" => jobs'[t].status # "READY")]_vars

\* C8 (as claimed): once the webhook handler has aborted the polling loop
\* of a task, that loop performs no further Job or Video write.
C8_NoPollWriteAfterAbort ==
    [][\A t \in Tasks :
          poll[t].aborted =>
              /\ writes'[t].pollStatus = writes[t].pollStatus
              /\ writes'[t].pollVideo = writes[t].pollVideo]_vars

\* C9 (as claimed): a callback handler that found its Job already terminal
\* (READY or FAILED) changes the Job's status in none of its steps.
C9_TerminalCallbackNoTransition ==
    [][\A d \in Deliveries :
          ( /\ wh[d].foundJob
            /\ wh[d].job.status \in Terminal
            /\ wh'[d] # wh[d] )
          => jobs'[wh[d].payload.taskId].status = jobs[wh[d].payload.taskId].status]_vars

Quiescent == \A p \in Requests : req[p].pc \in {"idle", "done"}

Arrived == { p \in Requests : req[p].pc # "idle" }

Consumers == { p \in Requests : req[p].op.kind = "consume" }

\* C3: when the balance was exactly 1 and N >= 2 interleaved consumeCredits
\* calls for that user (and nothing else) have run, exactly one returned
\* true, the N-1 others returned false, and the balance is 0.
C3_ExactlyOneDebit ==
    ( /\ credits0 = 1
      /\ Quiescent
      /\ Arrived = Consumers
      /\ Cardinality(Consumers) >= 2 )
    => /\ Cardinality({ p \in Consumers : req[p].result = "true" }) = 1
       /\ Cardinality({ p \in Consumers : req[p].result = "false" })
              = Cardinality(Consumers) - 1
       /\ users["u1"].creditsRemaining = 0

\* C3 witness: the balance was 1, two calls ran, one debited and one did not.
C3_Witness ==
    /\ credits0 = 1
    /\ Quiescent
    /\ Arrived = Consumers
    /\ \E p, q \in Consumers : req[p].result = "true" /\ req[q].result = "false"

\* A renewal the handler can act on: a subscription payment of a positive
\* amount, for a known price and the customer of a user.
IsGrantable(e) ==
    /\ e.type = "invoice.payment_succeeded"
    /\ e.signed
    /\ IsSubscriptionPayment(e)
    /\ MatchedPlan(e.priceId) # Null
    /\ e.customerId = "cus_1"

\* The same renewal, under the same or another event id.
SameRenewal(e1, e2) == [e1 EXCEPT !.id = Null] = [e2 EXCEPT !.id = Null]

RECURSIVE CountRows(_, _)
CountRows(ledger, entries) ==
    IF entries = {} THEN 0
    ELSE LET e == CHOOSE x \in entries : TRUE
         IN CopiesIn(e, ledger) + CountRows(ledger, entries \ {e})

\* Number of renewal rows in a user's ledger.
RenewalRows(u) ==
    CountRows(creditsLedger,
              { e \in BagToSet(creditsLedger) :
                  e.userId = u /\ e.reason \in { RenewalReason(pl) : pl \in {"basic", "pro", "max"} } })

\* C4: when deliveries of one renewal (same invoice id, same or different
\* event id) and nothing else have been handled, and one was answered 200,
\* credits were granted exactly once: the balance is the initial one plus
\* the plan's credits, the ledger has one renewal row, and exactly one
\* delivery wrote the processed-invoice record.
C4_ReplayGrantsOnce ==
    \A p \in Requests :
        ( /\ Quiescent
          /\ Cardinality(Arrived) >= 2
          /\ p \in Arrived
          /\ req[p].op.kind = "stripe"
          /\ IsGrantable(req[p].op.event)
          /\ \A q \in Arrived :
                req[q].op.kind = "stripe" /\ SameRenewal(req[q].op.event, req[p].op.event)
          /\ \E q \in Arrived : req[q].response = 200 )
        => /\ users["u1"].creditsRemaining
                = credits0 + PlanCreditsOf(MatchedPlan(req[p].op.event.priceId))
           /\ RenewalRows("u1") = 1
           /\ processedInvoices[req[p].op.event.invoiceId] # NoInvoice
           /\ Cardinality({ q \in Arrived : req[q].result = "granted" }) = 1

\* C4 witness: a renewal was granted and its redelivery under another
\* event id was answered 200 without a grant.
C4_Witness ==
    \E p, q \in Requests :
        /\ Quiescent
        /\ Arrived = {p, q}
        /\ req[p].op.kind = "stripe" /\ req[q].op.kind = "stripe"
        /\ IsGrantable(req[p].op.event)
        /\ SameRenewal(req[q].op.event, req[p].op.event)
        /\ req[p].op.event.id # req[q].op.event.id
        /\ req[p].result = "granted"
        /\ req[q].response = 200 /\ req[q].result = Null

\* C5 (as claimed): every user's creditsRemaining equals the sum of the
\* deltas of that user's ledger rows.
C5_BalanceEqualsLedger ==
    \A u \in Users : users[u] # NoUser => users[u].creditsRemaining = LedgerSum(u)

\* What the grant transaction of request p applies when it commits.
GrantApplied(p) ==
    LET e == req[p].op.event
        u == req[p].user
        plan == MatchedPlan(e.priceId)
        credits == PlanCreditsOf(plan)
    IN /\ processedInvoices[e.invoiceId] = NoInvoice
       /\ processedInvoices' =
              [processedInvoices EXCEPT ![e.invoiceId] =
                 [invoiceId |-> e.invoiceId, userId |-> u,
                  planType |-> plan, creditsAdded |-> credits]]
       /\ users' = [users EXCEPT ![u].creditsRemaining = req[p].read + credits,
                                 ![u].activePlan = plan,
                                 ![u].creditsRenewAt = RenewAt(e),
                                 ![u].stripeSubscriptionId = e.subscriptionId]
       /\ creditsLedger' =
              creditsLedger (+) SetToBag({LedgerEntry(u, credits, RenewalReason(plan), Null)})
       /\ e.id \notin stripeEvents
       /\ stripeEvents' = stripeEvents \cup {e.id}
       /\ req'[p].response = 200

GrantNotApplied(p) ==
    /\ UNCHANGED <<users, creditsLedger, processedInvoices, stripeEvents>>
    /\ (req'[p].pc = "done" => req'[p].response = 500)

ProcessedFor(u) ==
    { i \in Invoices : processedInvoices[i] # NoInvoice /\ processedInvoices[i].userId = u }

\* In a committed state the records of the grants agree: a user has as
\* many renewal rows as processed invoices, and the event of every granted
\* delivery is recorded.
GrantRecordsAgree ==
    /\ \A u \in Users : RenewalRows(u) = Cardinality(ProcessedFor(u))
    /\ \A p \in Requests :
          req[p].result = "granted" =>
              /\ processedInvoices[req[p].op.event.invoiceId] # NoInvoice
              /\ req[p].op.event.id \in stripeEvents

\* C6: the renewal grant is all-or-nothing.  Every step of a handler inside
\* its grant transaction either applies the processed-invoice record, the
\* balance and plan update, the ledger row and the processed-event record
\* together and answers 200, or changes none of them, answering 500 when
\* it ends the transaction; and in every state the records agree.
C6_GrantAllOrNothing ==
    /\ []GrantRecordsAgree
    /\ [][\A p \in Requests :
             (req[p].pc \in TxPcs /\ req'[p] # req[p])
             => (GrantApplied(p) \/ GrantNotApplied(p))]_vars

\* C6 witness: one grant transaction failed after it had staged its
\* writes and was answered 500, and one committed.
C6_Witness ==
    \E p, q \in Requests :
        /\ req[p].result = "rolledBack" /\ req[p].response = 500
        /\ req[q].result = "granted"
        /\ req[p].op.event.invoiceId = req[q].op.event.invoiceId

\* The delta a finished request applied to the balance of "u1".
AppliedDelta(p) ==
    CASE req[p].op.kind = "consume" /\ req[p].result = "true" -> -1
      [] req[p].op.kind = "refund" /\ req[p].result = "true" -> 1
      [] req[p].op.kind = "stripe" /\ req[p].result = "granted" ->
             PlanCreditsOf(MatchedPlan(req[p].op.event.priceId))
      [] OTHER -> 0

RECURSIVE SumApplied(_)
SumApplied(ps) ==
    IF ps = {} THEN 0
    ELSE LET p == CHOOSE x \in ps : TRUE IN AppliedDelta(p) + SumApplied(ps \ {p})

\* C7 (as claimed): when debits, refunds and renewal grants for one user
\* have run, interleaved in any order, the balance is the initial balance
\* plus the deltas of those that succeeded.
C7_NoLostUpdate ==
    ( /\ Quiescent
      /\ \A p \in Arrived : req[p].op.kind \in {"consume", "refund", "stripe"} )
    => users["u1"].creditsRemaining = credits0 + SumApplied(Arrived)

\* ---------------------------------------------------- polling on its own

\* The state right after startPolling(kieTaskId) of an accepted submission
\* (part_007:329-332, 39-40, 133): Job PROCESSING, the registry entry with
\* attempts 0, the first tick scheduled, and no callback ever delivered.
PollingInit ==
    /\ RateLimitIdle
    /\ jobs = [t \in Tasks |-> IF t \in SubmittedTasks THEN SubmittedJob ELSE NoJob]
    /\ videos = [t \in Tasks |-> IF t \in SubmittedTasks THEN SubmittedVideo ELSE NoVideo]
    /\ pollingControllers = [t \in Tasks |-> t \in SubmittedTasks]
    /\ poll = [t \in Tasks |->
                 [pc |-> IF t \in SubmittedTasks THEN "scheduled" ELSE "none",
                  attempts |-> 0,
                  aborted |-> FALSE,
                  lookup |-> "none",
                  info |-> NoInfo,
                  timers |-> IF t \in SubmittedTasks THEN 1 ELSE 0]]
    /\ wh = [d \in Deliveries |-> IdleDelivery]
    /\ writes = [t \in Tasks |-> NoWrites]
    /\ whAfter = [d \in Deliveries |-> NoSnapshot]
    /\ InitBilling
    /\ credits0 = 1

NextPolling == \E t \in Tasks : PollStep(t)

\* A scheduled tick fires (setTimeout, part_007:106, :128, :133) and an
\* awaited call settles: a loop that can take a step eventually takes one.
SpecPolling == PollingInit /\ [][NextPolling]_vars /\ WF_vars(NextPolling)

\* C11: with no callback, the polling loop never runs a tick after the
\* 30th, issues its FAILED write on no tick before the 30th, and a loop
\* whose lookups never reported result URLs, the last one having resolved,
\* ends with the Job FAILED for the timeout reason, written once, on the
\* 30th tick.
C11_FailsAtCeilingOnly ==
    \A t \in SubmittedTasks :
        /\ poll[t].attempts <= PollCeiling
        /\ (jobs[t].status = "FAILED" \/ poll[t].pc = "failJob")
              => poll[t].attempts = PollCeiling
        /\ ( /\ poll[t].pc = "stopped"
             /\ writes[t].pollVideo = 0
             /\ poll[t].lookup = "record" )
           => /\ jobs[t].status = "FAILED"
              /\ jobs[t].errorReason = TimeoutReason
              /\ poll[t].attempts = PollCeiling
              /\ writes[t].pollStatus = 1

\* C11 witness: the loop ran out after 30 ticks without result URLs.
C11_Witness ==
    \E t \in SubmittedTasks :
        /\ poll[t].pc = "stopped"
        /\ poll[t].attempts = PollCeiling
        /\ writes[t].pollVideo = 0
        /\ jobs[t].status = "FAILED"
        /\ jobs[t].errorReason = TimeoutReason

\* C12: every Job whose polling loop was started is eventually terminal
\* (READY or FAILED) for ever, after at most 30 ticks, with no callback
\* delivered and lookups that may fail.
C12_EventuallyTerminal ==
    \A t \in SubmittedTasks :
        <>[](jobs[t].status \in Terminal /\ poll[t].attempts <= PollCeiling)

\* C12 witness: the lookups failed up to the ceiling and the Job is FAILED
\* with the error's message.
C12_Witness ==
    \E t \in SubmittedTasks :
        /\ poll[t].pc = "stopped"
        /\ jobs[t].status = "FAILED"
        /\ jobs[t].errorReason = LookupErrorReason

\* ------------------------------------------------- POST /api/create-job

\* part_007:259, `veo_task_${randomUUID()}`: the placeholder task id of the
\* p-th request, unique to it.
PlaceholderIds == <<"veo_task_1", "veo_task_2", "veo_task_3", "veo_task_4">>

PlaceholderOf(p) == PlaceholderIds[p]

Placeholders == { PlaceholderOf(p) : p \in Requests }

\* Task ids of rows of jobs and videos: provider ids and placeholders.
TaskIds == Tasks \cup Placeholders

\* part_007:277-281
QueuedJob == [userId |-> "u1", status |-> "QUEUED", errorReason |-> Null]

\* The locals of the handler: the Job's id (the row id the insert returned,
\* one per request), `taskId`, `kieTaskId`, and whether generateVideo was
\* called, and the request body.
CreateJobOp(p, body) ==
    [kind |-> "createJob", jobId |-> p, taskId |-> PlaceholderOf(p),
     kieTaskId |-> Null, providerCalls |-> 0, body |-> body]

\* part_007:352 and :356: the message of the error generateVideo threw.
ProviderErrorReason == "Kie.ai API error"

\* The message of the unique violation updateJobTaskId threw.
RekeyErrorReason == "duplicate key value violates unique constraint"

\* Bodies of POST /api/create-job: the prompt as a sequence of characters
\* and the optional seeds ({} when missing or null).
RequestBodies ==
    { [prompt |-> pr, seeds |-> sd] :
        pr \in {<<>>, <<"c", "a", "t">>},
        sd \in {{}, {9999}, {10000}, {99999}, {100000}} }

\* Faulty variant of createJobSchema: every body is accepted.
createJobSchemaLax(body) == TRUE

\* schema.ts:99-103: createJobSchema.parse succeeds: a prompt of at least
\* one character, and seeds missing, null, or a number in 10000..99999.
createJobSchema(body) ==
    /\ Len(body.prompt) >= 1
    /\ \A sd \in body.seeds : sd >= 10000 /\ sd <= 99999

\* The locals of a handler whose request was rejected: no Job id, no
\* task id.
RejectedOp(body) ==
    [kind |-> "createJob", jobId |-> Null, taskId |-> Null,
     kieTaskId |-> Null, providerCalls |-> 0, body |-> body]

\* part_007:244 and :363-369: createJobSchema.parse throws a ZodError and
\* the outer catch answers 400 "Invalid request data".
SubmitRejectInvalid(p) ==
    /\ Arrives(p)
    /\ \E body \in RequestBodies :
         /\ ~createJobSchema(body)
         /\ req' = [req EXCEPT ![p] =
                      [IdleRequest EXCEPT !.pc = "done", !.op = RejectedOp(body),
                                          !.user = "u1", !.response = 400]]
    /\ UNCHANGED <<users, creditsLedger, processedInvoices, stripeEvents, credits0>>
    /\ UNCHANGED jobVars

\* part_007:243-281: the request of user "u1" passes createJobSchema and
\* storage.createJob inserts the Job, QUEUED, under the placeholder id.
SubmitCreateJob(p) ==
    /\ Arrives(p)
    /\ \E body \in RequestBodies :
         /\ createJobSchema(body)
         /\ req' = [req EXCEPT ![p] =
                      [IdleRequest EXCEPT !.pc = "created", !.op = CreateJobOp(p, body),
                                          !.user = "u1"]]
    /\ jobs' = [jobs EXCEPT ![PlaceholderOf(p)] = QueuedJob]
    /\ UNCHANGED <<videos, pollingControllers, poll, wh, writes, whAfter>>
    /\ UNCHANGED <<users, creditsLedger, processedInvoices, stripeEvents, credits0>>

\* part_007:284: storage.consumeCredits(userId, newJob.id) is called; its
\* transaction locks the user row.  ConsumeCommit ends the call.
SubmitConsume(p) ==
    /\ req[p].pc = "created"
    /\ ConsumeSelect(p, [req[p] EXCEPT !.pc = "consume"])
    /\ UNCHANGED <<users, creditsLedger, processedInvoices, stripeEvents, credits0, limVars>>
    /\ UNCHANGED jobVars

\* consumeCredits has returned to the handler, which has not answered yet.
ConsumeReturned(p) ==
    /\ req[p].pc = "done"
    /\ req[p].op.kind = "createJob"
    /\ req[p].response = 0

\* Faulty variant of SubmitNoCredits: the handler goes on to the provider
\* call although consumeCredits returned false.
SubmitNoCreditsIgnored(p) ==
    /\ ConsumeReturned(p)
    /\ req[p].result = "false"
    /\ req' = [req EXCEPT ![p].pc = "generate"]
    /\ UNCHANGED <<users, creditsLedger, processedInvoices, stripeEvents, credits0, limVars>>
    /\ UNCHANGED jobVars

\* part_007:285-292: consumeCredits returned false: the Job is set FAILED
\* with reason insufficient_credits and the handler answers 400.
SubmitNoCredits(p) ==
    /\ ConsumeReturned(p)
    /\ req[p].result = "false"
    /\ jobs' = updateJobStatus(jobs, req[p].op.taskId, "FAILED", "insufficient_credits")
    /\ req' = [req EXCEPT ![p].response = 400]
    /\ UNCHANGED <<videos, pollingControllers, poll, wh, writes, whAfter>>
    /\ UNCHANGED <<users, creditsLedger, processedInvoices, stripeEvents, credits0, limVars>>

\* Faulty variant of SubmitCreateVideo: the handler goes on whatever
\* consumeCredits returned.
SubmitCreateVideoUnchecked(p) ==
    /\ ConsumeReturned(p)
    /\ videos' = [videos EXCEPT ![req[p].op.taskId] = SubmittedVideo]
    /\ req' = [req EXCEPT ![p].pc = "generate"]
    /\ UNCHANGED <<jobs, pollingControllers, poll, wh, writes, whAfter>>
    /\ UNCHANGED <<users, creditsLedger, processedInvoices, stripeEvents, credits0, limVars>>

\* part_007:294-298: storage.createVideo under the placeholder id.
SubmitCreateVideo(p) ==
    /\ ConsumeReturned(p)
    /\ req[p].result = "true"
    /\ videos' = [videos EXCEPT ![req[p].op.taskId] = SubmittedVideo]
    /\ req' = [req EXCEPT ![p].pc = "generate"]
    /\ UNCHANGED <<jobs, pollingControllers, poll, wh, writes, whAfter>>
    /\ UNCHANGED <<users, creditsLedger, processedInvoices, stripeEvents, credits0, limVars>>

\* The task ids the provider has assigned.
AssignedTasks ==
    { req[q].op.kieTaskId : q \in { r \in Requests : req[r].op.kind = "createJob" } }

\* The provider's task ids in the order in which it assigns them.
TaskOrder == <<"t1", "t2">>

\* part_007:314-326: kieService.generateVideo resolves with the task id the
\* provider assigned, an id it gave to no other request.
SubmitGenerate(p) ==
    /\ req[p].pc = "generate"
    /\ \E i \in 1 .. Len(TaskOrder) :
         /\ TaskOrder[i] \notin AssignedTasks
         /\ \A j \in 1 .. (i - 1) : TaskOrder[j] \in AssignedTasks
         /\ LET k == TaskOrder[i] IN
            req' = [req EXCEPT ![p].pc = "rekeyJob",
                                  ![p].op.kieTaskId = k,
                                  ![p].op.providerCalls = @ + 1]
    /\ UNCHANGED <<users, creditsLedger, processedInvoices, stripeEvents, credits0, limVars>>
    /\ UNCHANGED jobVars

\* part_007:314 and :351-353: kieService.generateVideo throws.
SubmitGenerateError(p) ==
    /\ req[p].pc = "generate"
    /\ req' = [req EXCEPT ![p].pc = "failed", ![p].op.providerCalls = @ + 1]
    /\ UNCHANGED <<users, creditsLedger, processedInvoices, stripeEvents, credits0, limVars>>
    /\ UNCHANGED jobVars

\* DatabaseStorage.updateJobTaskId: UPDATE jobs SET task_id = new WHERE
\* task_id = old.
updateJobTaskId(js, oldTaskId, newTaskId) ==
    [js EXCEPT ![newTaskId] = js[oldTaskId], ![oldTaskId] = NoJob]

\* DatabaseStorage.updateVideoTaskId: UPDATE videos SET task_id = new WHERE
\* task_id = old.
updateVideoTaskId(vs, oldTaskId, newTaskId) ==
    [vs EXCEPT ![newTaskId] = vs[oldTaskId], ![oldTaskId] = NoVideo]

\* part_007:327: storage.updateJobTaskId(taskId, kieTaskId).  jobs.task_id
\* is unique: when a Job already has the provider's id (the callback
\* handler created it), the update throws into the catch at :351.
SubmitRekeyJob(p) ==
    /\ req[p].pc = "rekeyJob"
    /\ IF jobs[req[p].op.kieTaskId] # NoJob
       THEN /\ req' = [req EXCEPT ![p].pc = "failed"]
            /\ UNCHANGED jobs
       ELSE /\ jobs' = updateJobTaskId(jobs, req[p].op.taskId, req[p].op.kieTaskId)
            /\ req' = [req EXCEPT ![p].pc = "rekeyVideo"]
    /\ UNCHANGED <<videos, pollingControllers, poll, wh, writes, whAfter>>
    /\ UNCHANGED <<users, creditsLedger, processedInvoices, stripeEvents, credits0, limVars>>

\* part_007:328: storage.updateVideoTaskId(taskId, kieTaskId).
SubmitRekeyVideo(p) ==
    /\ req[p].pc = "rekeyVideo"
    /\ videos' = updateVideoTaskId(videos, req[p].op.taskId, req[p].op.kieTaskId)
    /\ req' = [req EXCEPT ![p].pc = "setProcessing"]
    /\ UNCHANGED <<jobs, pollingControllers, poll, wh, writes, whAfter>>
    /\ UNCHANGED <<users, creditsLedger, processedInvoices, stripeEvents, credits0, limVars>>

\* Faulty variant of startPolling: the registry is not consulted.
startPollingAlways(registry, loops, t) ==
    <<[registry EXCEPT ![t] = TRUE],
      [loops EXCEPT ![t] =
         [pc |-> "scheduled", attempts |-> 0, aborted |-> FALSE,
          lookup |-> "none", info |-> NoInfo, timers |-> loops[t].timers + 1]]>>

\* part_007:33-40, :133: startPolling(taskId) does nothing when the
\* registry has the task; otherwise it adds an entry with a new controller
\* and attempts 0 and schedules the first tick.  The result is the
\* registry and the loops after the call.
startPolling(registry, loops, t) ==
    IF registry[t] THEN <<registry, loops>>
    ELSE <<[registry EXCEPT ![t] = TRUE],
           [loops EXCEPT ![t] =
              [pc |-> "scheduled", attempts |-> 0, aborted |-> FALSE,
               lookup |-> "none", info |-> NoInfo, timers |-> loops[t].timers + 1]]>>

\* part_007:329-350: storage.updateJobStatus(kieTaskId, 'PROCESSING'), then
\* startPolling(kieTaskId), then the 200 answer.
SubmitSetProcessing(p) ==
    /\ req[p].pc = "setProcessing"
    /\ LET k == req[p].op.kieTaskId
           started == startPolling(pollingControllers, poll, k)
       IN /\ jobs' = updateJobStatus(jobs, k, "PROCESSING", Null)
          /\ pollingControllers' = started[1]
          /\ poll' = started[2]
    /\ req' = [req EXCEPT ![p].pc = "done", ![p].response = 200]
    /\ UNCHANGED <<videos, wh, writes, whAfter>>
    /\ UNCHANGED <<users, creditsLedger, processedInvoices, stripeEvents, credits0, limVars>>

\* Faulty variant of SubmitFail: the catch also gives the credit back.
SubmitFailRefunding(p) ==
    /\ req[p].pc = "failed"
    /\ RowFree("u1", p)
    /\ jobs' = updateJobStatus(jobs, req[p].op.taskId, "FAILED", ProviderErrorReason)
    /\ users' = [users EXCEPT !["u1"].creditsRemaining = @ + 1]
    /\ creditsLedger' =
           insertLedger(creditsLedger, LedgerEntry("u1", 1, "refund", req[p].op.jobId))
    /\ req' = [req EXCEPT ![p].pc = "done", ![p].response = 500]
    /\ UNCHANGED <<videos, pollingControllers, poll, wh, writes, whAfter>>
    /\ UNCHANGED <<processedInvoices, stripeEvents, credits0, limVars>>

\* part_007:351-361: the catch of the provider call: the Job under the
\* placeholder id is set FAILED with the error's message, and the handler
\* answers 500.  Nothing is refunded.
SubmitFail(p) ==
    /\ req[p].pc = "failed"
    /\ jobs' = updateJobStatus(jobs, req[p].op.taskId, "FAILED",
                               IF req[p].op.kieTaskId = Null THEN ProviderErrorReason
                               ELSE RekeyErrorReason)
    /\ req' = [req EXCEPT ![p].pc = "done", ![p].response = 500]
    /\ UNCHANGED <<videos, pollingControllers, poll, wh, writes, whAfter>>
    /\ UNCHANGED <<users, creditsLedger, processedInvoices, stripeEvents, credits0, limVars>>

SubmitStep(p) ==
    \/ SubmitRejectInvalid(p) /\ UNCHANGED limVars
    \/ SubmitCreateJob(p) /\ UNCHANGED limVars
    \/ SubmitConsume(p)
    \/ req[p].op.kind = "createJob" /\ ConsumeCommit(p)
    \/ SubmitNoCredits(p)
    \/ SubmitCreateVideo(p)
    \/ SubmitGenerate(p)
    \/ SubmitGenerateError(p)
    \/ SubmitRekeyJob(p)
    \/ SubmitRekeyVideo(p)
    \/ SubmitSetProcessing(p)
    \/ SubmitFail(p)

\* No Job yet, no polling loop, no callback delivered.
NoJobs ==
    /\ jobs = [t \in TaskIds |-> NoJob]
    /\ videos = [t \in TaskIds |-> NoVideo]
    /\ pollingControllers = [t \in Tasks |-> FALSE]
    /\ poll = [t \in Tasks |->
                 [pc |-> "none", attempts |-> 0, aborted |-> FALSE,
                  lookup |-> "none", info |-> NoInfo, timers |-> 0]]
    /\ wh = [d \in Deliveries |-> IdleDelivery]
    /\ writes = [t \in Tasks |-> NoWrites]
    /\ whAfter = [d \in Deliveries |-> NoSnapshot]

\* Balances with which "u1" starts to submit: none, one or two credits,
\* granted as one promo row.
SubmitBalances == {0, 1, 2}

\* No Job yet: user "u1" holds its balance and submits requests.
SubmitInit ==
    /\ NoJobs
    /\ RateLimitIdle
    /\ credits0 \in SubmitBalances
    /\ users = [u \in Users |->
                  IF u = "u1"
                  THEN [creditsRemaining |-> credits0, activePlan |-> Null,
                        creditsRenewAt |-> Null, stripeSubscriptionId |-> Null,
                        stripeCustomerId |-> "cus_1"]
                  ELSE NoUser]
    /\ creditsLedger = IF credits0 = 0 THEN EmptyBag
                       ELSE SetToBag({LedgerEntry("u1", credits0, "promo", Null)})
    /\ processedInvoices = [i \in Invoices |-> NoInvoice]
    /\ stripeEvents = {}
    /\ req = [p \in Requests |-> IdleRequest]

LifecycleInit ==
    /\ NoJobs
    /\ InitBilling
    /\ RateLimitIdle

\* The steps of the first tick of a polling loop.
EarlyPollStep(t) ==
    \/ poll[t].attempts = 0 /\ PollTick(t)
    \/ PollGetJob(t)
    \/ PollRecordInfo(t)
    \/ PollRecordInfoError(t)
    \/ PollUpdateVideo(t)
    \/ PollReadyJob(t)
    \/ PollDelete(t)

\* The requests of user "u1" on their own.
NextSubmit == \E p \in Requests : SubmitStep(p)

SpecSubmit == SubmitInit /\ [][NextSubmit]_vars

\* Requests, the polling loops they started, and the provider's callback,
\* delivered and redelivered, interleaved.
\* The requests of the lifecycle carry no seeds.
PlainBodies ==
    \A p \in Requests : req[p].op.kind = "createJob" => req[p].op.body.seeds = {}

NextLifecycle ==
    \/ \E p \in Requests : SubmitStep(p) /\ PlainBodies'
    \/ \E t \in Tasks : EarlyPollStep(t)
    \/ \E d \in Deliveries :
          /\ \A e \in Deliveries \ {d} : wh[e].pc \in {"idle", "done"}
          /\ WebhookStep(d)
          /\ SameCallback'

SpecLifecycle == LifecycleInit /\ [][NextLifecycle]_vars

\* ------------------------------------------------------------ rate limiter

\* Faulty variant of rateLimitMiddleware: a request is refused only when
\* the count exceeds maxRequests.
rateLimitMiddlewareLax(limit, userId, t) ==
    LET userLimit == limit[userId] IN
    IF userLimit = NoLimit \/ t > userLimit.resetTime
    THEN [rateLimit |-> [limit EXCEPT ![userId] =
                           [count |-> 1, resetTime |-> t + windowMs]],
          next |-> TRUE]
    ELSE IF userLimit.count > maxRequests
         THEN [rateLimit |-> limit, next |-> FALSE]
         ELSE [rateLimit |-> [limit EXCEPT ![userId].count = @ + 1], next |-> TRUE]

\* part_007:138-160: the middleware at time t for userId: the Map after it,
\* and whether it called next() (otherwise it answered 429).
rateLimitMiddleware(limit, userId, t) ==
    LET userLimit == limit[userId] IN
    IF userLimit = NoLimit \/ t > userLimit.resetTime
    THEN [rateLimit |-> [limit EXCEPT ![userId] =
                           [count |-> 1, resetTime |-> t + windowMs]],
          next |-> TRUE]
    ELSE IF userLimit.count >= maxRequests
         THEN [rateLimit |-> limit, next |-> FALSE]
         ELSE [rateLimit |-> [limit EXCEPT ![userId].count = @ + 1], next |-> TRUE]

\* The locals of a request the limiter answered.
LimitedOp == [kind |-> "limited"]

\* part_007:241-281, 363-369: the limiter lets the request of "u1" pass and
\* the handler runs to its first await: the body is refused, or createJob
\* is issued.
RateLimitPass(p) ==
    /\ Arrives(p)
    /\ LET r == rateLimitMiddleware(rateLimit, "u1", now) IN
         /\ r.next
         /\ rateLimit' = r.rateLimit
    /\ passLog' = Append(passLog, now)
    /\ UNCHANGED now
    /\ SubmitRejectInvalid(p) \/ SubmitCreateJob(p)

\* part_007:152-156: the limiter answers 429; the handler does not run.
RateLimitReject(p) ==
    /\ Arrives(p)
    /\ LET r == rateLimitMiddleware(rateLimit, "u1", now) IN
         /\ ~r.next
         /\ rateLimit' = r.rateLimit
    /\ req' = [req EXCEPT ![p] =
                 [IdleRequest EXCEPT !.pc = "done", !.op = LimitedOp,
                                     !.user = "u1", !.response = 429]]
    /\ UNCHANGED <<now, passLog>>
    /\ UNCHANGED <<users, creditsLedger, processedInvoices, stripeEvents, credits0>>
    /\ UNCHANGED jobVars

\* The clock advances in steps of half a window.
ClockStep == 30000

MaxClockTicks == 4

\* part_007:143: Date.now() grows between two requests.
ClockTick ==
    /\ now < ClockStep * MaxClockTicks
    /\ now' = now + ClockStep
    /\ UNCHANGED <<rateLimit, passLog>>
    /\ UNCHANGED <<jobVars, billVars>>

\* The earlier requests of "u1" in the window that began at time 0: none,
\* or up to maxRequests of them, each refused for its body.
PriorRequests == 0 .. maxRequests

RateLimitInit ==
    /\ NoJobs
    /\ InitBilling
    /\ now = ClockStep
    /\ \E c \in PriorRequests :
         /\ rateLimit = [u \in Users |->
                          IF u = "u1" /\ c > 0
                          THEN [count |-> c, resetTime |-> windowMs]
                          ELSE NoLimit]
         /\ passLog = [i \in 1 .. c |-> 0]

NextRateLimit ==
    \/ \E p \in Requests : RateLimitPass(p) /\ PlainBodies'
    \/ \E p \in Requests : RateLimitReject(p)
    \/ \E p \in Requests : req[p].pc # "idle" /\ SubmitStep(p)
    \/ ClockTick

SpecRateLimit == RateLimitInit /\ [][NextRateLimit]_vars

\* ------------------------------------------------------ claims (create-job)

Submissions == { p \in Requests : req[p].op.kind = "createJob" }

\* C13 (as claimed): in no state does the Job of a request carry the
\* provider's id while its Video carries the placeholder id, or the reverse.
C13_RekeyAtomic ==
    \A p \in Submissions :
        LET old == req[p].op.taskId
            new == req[p].op.kieTaskId
        IN new # Null =>
             /\ ~(jobs[old] = NoJob /\ jobs[new] # NoJob /\ videos[old] # NoVideo)
             /\ ~(videos[old] = NoVideo /\ videos[new] # NoVideo /\ jobs[old] # NoJob)

\* Rows of the ledger that carry the Job id of request p, by reason.
JobRows(p, reason) ==
    CountRows(creditsLedger,
              { e \in BagToSet(creditsLedger) : e.reason = reason /\ e.jobId = p })

\* Debits that have committed.
Debited == { q \in Submissions : req[q].result = "true" }

\* The handler of p was answered 500 because generateVideo threw.
ProviderFailed(p) ==
    /\ req[p].response = 500
    /\ req[p].op.providerCalls = 1
    /\ req[p].op.kieTaskId = Null

\* C14: once a request was debited and its provider call failed, in that
\* state and every later one its Job is FAILED with the provider's error
\* as reason, the ledger holds one video_generation row of delta -1 and no
\* refund row for that Job, and the balance is the initial balance less
\* one credit per debited request, this one among them.
C14_FailedSubmissionStaysCharged ==
    \A p \in Submissions :
        ProviderFailed(p) =>
            /\ jobs[req[p].op.taskId].status = "FAILED"
            /\ jobs[req[p].op.taskId].errorReason = ProviderErrorReason
            /\ JobRows(p, "video_generation") = 1
            /\ CopiesIn(LedgerEntry("u1", -1, "video_generation", p), creditsLedger) = 1
            /\ JobRows(p, "refund") = 0
            /\ p \in Debited
            /\ users["u1"].creditsRemaining = credits0 - Cardinality(Debited)

\* C14 witness: a debited request whose provider call failed, and a later
\* request that was handled after it.
C14_Witness ==
    \E p, q \in Submissions :
        /\ p < q
        /\ ProviderFailed(p)
        /\ req[q].response # 0
        /\ users["u1"].creditsRemaining = credits0 - 1

\* What holds of a request whose consumeCredits returned false.
RefusedRequestInert(p) ==
    /\ req[p].op.providerCalls = 0
    /\ req[p].op.kieTaskId = Null
    /\ req[p].pc = "done"
    /\ JobRows(p, "video_generation") = 0
    /\ videos[req[p].op.taskId] = NoVideo
    /\ req[p].response \in {0, 400}
    /\ req[p].response = 400 =>
          /\ jobs[req[p].op.taskId].status = "FAILED"
          /\ jobs[req[p].op.taskId].errorReason = "insufficient_credits"

C16_BalanceNeverNegative ==
    \A u \in Users : users[u] # NoUser => users[u].creditsRemaining >= 0

\* C16 witness: a debit, a refund that overlapped it, and a debit refused
\* or granted after them.
C16_Witness ==
    \E p, q \in Requests :
        /\ req[p].op.kind = "consume" /\ req[p].result = "false"
        /\ req[q].op.kind \in {"refund", "stripe"}
        /\ req[q].result \in {"true", "granted"}

\* C17: the ledger holds at most one video_generation row per Job id.
C17_AtMostOneDebitPerJob ==
    \A p \in Requests : JobRows(p, "video_generation") <= 1

\* C17 witness: a request was debited and accepted, its polling loop ran a
\* tick, and the provider's callback for it was handled twice.
C17_Witness ==
    \E p \in Submissions :
        /\ req[p].response = 200
        /\ JobRows(p, "video_generation") = 1
        /\ poll[req[p].op.kieTaskId].attempts >= 1
        /\ \E d, e \in Deliveries :
              /\ d < e
              /\ wh[d].pc = "done" /\ wh[e].pc = "done"
              /\ wh[d].payload.taskId = req[p].op.kieTaskId
              /\ wh[d].foundJob

\* ------------------------------------------------- claims (Stripe webhook)

StripeRequests == { p \in Requests : req[p].op.kind = "stripe" }

Granted(p) == req[p].result = "granted"

\* The delivery handled by p found neither its event id nor its invoice id
\* recorded and went on to the grant transaction.
PassedLookups(p) ==
    /\ p \in StripeRequests
    /\ \/ req[p].pc \in TxPcs
       \/ req[p].result \in {"granted", "rolledBack"}

\* C18: of two deliveries that reference the same invoice id and have both
\* passed the event-id and invoice-id lookups, at most one commits its
\* grant; once one has, the other ends rolled back with 500, and when the
\* two are all that ran, the balance has grown by one plan amount and one
\* processed-invoice record and one renewal row exist.
C18_ConcurrentGrantOnce ==
    \A p, q \in Requests :
        ( /\ p # q
          /\ PassedLookups(p) /\ PassedLookups(q)
          /\ req[p].op.event.invoiceId = req[q].op.event.invoiceId )
        => /\ ~(Granted(p) /\ Granted(q))
           /\ Granted(p) =>
                 /\ processedInvoices[req[p].op.event.invoiceId] # NoInvoice
                 /\ req[q].pc = "done" =>
                       req[q].result = "rolledBack" /\ req[q].response = 500
                 /\ (Arrived = {p, q} /\ req[q].pc = "done") =>
                       /\ users["u1"].creditsRemaining
                             = credits0 + PlanCreditsOf(MatchedPlan(req[p].op.event.priceId))
                       /\ RenewalRows("u1") = 1
                       /\ Cardinality(ProcessedFor("u1")) = 1

\* C18 witness: one delivery has committed its grant while another for the
\* same invoice, which passed its lookups before that commit, is still in
\* its transaction.
C18_Witness ==
    \E p, q \in StripeRequests :
        /\ p # q
        /\ Granted(p)
        /\ req[q].pc \in TxPcs
        /\ req[p].op.event.invoiceId = req[q].op.event.invoiceId
        /\ req[p].op.event.id # req[q].op.event.id

\* The tables the Stripe webhook writes.
billingTables == <<users, creditsLedger, processedInvoices, stripeEvents>>

\* C19: a delivery whose event id is recorded when the handler looks it up
\* is answered 200 in that step, which ends the handler and changes no
\* balance, ledger row, plan field, processed invoice or processed event.
C19_RecordedEventNoOp ==
    [][\A p \in Requests :
          ( /\ req[p].pc = "idle"
            /\ req'[p].op.kind = "stripe"
            /\ req'[p].op.event.signed
            /\ req'[p].op.event.id \in stripeEvents )
          => /\ req'[p].pc = "done"
             /\ req'[p].response = 200
             /\ req'[p].result = Null
             /\ UNCHANGED billingTables]_vars

\* C19 witness: a renewal was granted and a later delivery with the same
\* event id was answered 200 without a grant.
C19_Witness ==
    \E p, q \in StripeRequests :
        /\ p < q
        /\ Granted(p)
        /\ req[q].op.event.id = req[p].op.event.id
        /\ req[q].pc = "done" /\ req[q].response = 200 /\ req[q].result = Null

\* C20: a delivery whose signature does not verify is answered 400 in the
\* step in which it arrives, which ends the handler and changes no table;
\* an event id is recorded only for a delivery whose signature verified.
C20_BadSignatureRejected ==
    /\ [](\A p \in StripeRequests :
             ~req[p].op.event.signed =>
                 /\ req[p].pc = "done"
                 /\ req[p].response = 400
                 /\ req[p].result = Null
                 /\ req[p].staged = {})
    /\ [](\A id \in stripeEvents :
             \E p \in StripeRequests :
                 req[p].op.event.id = id /\ req[p].op.event.signed)
    /\ [][\A p \in Requests :
             ( /\ req[p].pc = "idle"
               /\ req'[p].op.kind = "stripe"
               /\ ~req'[p].op.event.signed )
             => UNCHANGED billingTables]_vars

\* C20 witness: a renewal with a bad signature was answered 400 and left
\* the balance and the tables as they were at the start.
C20_Witness ==
    \E p \in StripeRequests :
        /\ ~req[p].op.event.signed
        /\ req[p].op.event.type = "invoice.payment_succeeded"
        /\ req[p].response = 400
        /\ Arrived = {p}
        /\ users["u1"].creditsRemaining = credits0
        /\ stripeEvents = {}
        /\ \A i \in Invoices : processedInvoices[i] = NoInvoice

\* An authentic event the handler cannot act on: a checkout without
\* customer or user id, a subscription payment without customer or price
\* or with an unrecognized price, or an event whose customer id matches
\* no local user.
CannotActOn(e) ==
    /\ e.signed
    /\ \/ /\ e.type = "checkout.session.completed"
          /\ (e.customerId = Null \/ e.metaUserId = Null)
       \/ /\ e.type = "invoice.payment_succeeded"
          /\ e.billingReason \in {"subscription_create", "subscription_cycle"}
          /\ e.amountPaid > 0
          /\ \/ e.customerId = Null
             \/ e.priceId = Null
             \/ MatchedPlan(e.priceId) = Null
             \/ getUserByStripeCustomerId(users, e.customerId) = Null
       \/ /\ e.type = "customer.subscription.deleted"
          /\ getUserByStripeCustomerId(users, e.customerId) = Null

\* C21 (as claimed): an authentic event the handler could not act on and
\* answered with success granted nothing and has its event id recorded.
C21_UnactionableEventRecorded ==
    \A p \in StripeRequests :
        ( /\ req[p].pc = "done"
          /\ req[p].response = 200
          /\ CannotActOn(req[p].op.event) )
        => /\ req[p].result = Null
           /\ req[p].op.event.id \in stripeEvents

\* The request that takes the step, when it handles a Stripe event.
StripeActor(p) == req'[p] # req[p] /\ req'[p].op.kind = "stripe"

\* C22: every step of the handler of a customer.subscription.deleted
\* event leaves every balance and the ledger unchanged, and the step that
\* updates the matching user leaves activePlan, creditsRenewAt and
\* stripeSubscriptionId of that user cleared.
C22_CancellationKeepsCredits ==
    [][\A p \in Requests :
          ( /\ StripeActor(p)
            /\ req'[p].op.event.type = "customer.subscription.deleted" )
          => /\ \A u \in Users : ReadCredits(u)' = ReadCredits(u)
             /\ creditsLedger' = creditsLedger
             /\ req[p].pc = "clearPlan" =>
                   /\ users'[req[p].user].activePlan = Null
                   /\ users'[req[p].user].creditsRenewAt = Null
                   /\ users'[req[p].user].stripeSubscriptionId = Null]_vars

\* C22 witness: a renewal was granted, then the subscription was
\* cancelled: the plan fields are cleared and the granted credits are
\* still there.
C22_Witness ==
    \E p, q \in StripeRequests :
        /\ Arrived = {p, q}
        /\ Granted(p)
        /\ req[q].op.event.type = "customer.subscription.deleted"
        /\ req[q].pc = "done" /\ req[q].response = 200
        /\ req[q].op.event.id \in stripeEvents
        /\ users["u1"].activePlan = Null
        /\ users["u1"].creditsRenewAt = Null
        /\ users["u1"].stripeSubscriptionId = Null
        /\ users["u1"].creditsRemaining
              = credits0 + PlanCreditsOf(MatchedPlan(req[p].op.event.priceId))
        /\ RenewalRows("u1") = 1

\* An invoice.payment_succeeded event with billing reason
\* subscription_create or subscription_cycle and a positive amount.
PaidSubscriptionInvoice(e) ==
    /\ e.type = "invoice.payment_succeeded"
    /\ e.billingReason \in {"subscription_create", "subscription_cycle"}
    /\ e.amountPaid > 0

\* C23: no step of the handler of any other event than a paid
\* subscription invoice changes a balance or the ledger, only such an
\* event is ever granted, and an invoice delivered both as invoice.paid
\* and as invoice.payment_succeeded is credited once.
C23_OnlyPaidInvoicesGrant ==
    /\ [][\A p \in Requests :
             (StripeActor(p) /\ ~PaidSubscriptionInvoice(req'[p].op.event))
             => /\ \A u \in Users : ReadCredits(u)' = ReadCredits(u)
                /\ creditsLedger' = creditsLedger]_vars
    /\ [](\A p \in StripeRequests :
             Granted(p) => PaidSubscriptionInvoice(req[p].op.event))
    /\ [](\A p, q \in StripeRequests :
             ( /\ Quiescent
               /\ Arrived = {p, q}
               /\ req[p].op.event.type = "invoice.paid"
               /\ req[q].op.event.type = "invoice.payment_succeeded"
               /\ req[p].op.event.invoiceId = req[q].op.event.invoiceId )
             => /\ users["u1"].creditsRemaining
                     = credits0 + (IF Granted(q)
                                   THEN PlanCreditsOf(MatchedPlan(req[q].op.event.priceId))
                                   ELSE 0)
                /\ RenewalRows("u1") = (IF Granted(q) THEN 1 ELSE 0))

\* C23 witness: one invoice was delivered as invoice.paid, with a
\* subscription billing reason and a positive amount, and as
\* invoice.payment_succeeded; both were answered 200 and one grant was
\* made.
C23_Witness ==
    \E p, q \in StripeRequests :
        /\ Arrived = {p, q}
        /\ req[p].op.event.type = "invoice.paid"
        /\ req[p].op.event.billingReason = "subscription_cycle"
        /\ req[p].op.event.amountPaid > 0
        /\ req[p].op.event.invoiceId = req[q].op.event.invoiceId
        /\ req[p].pc = "done" /\ req[p].response = 200 /\ req[p].result = Null
        /\ Granted(q)
        /\ users["u1"].creditsRemaining
              = credits0 + PlanCreditsOf(MatchedPlan(req[q].op.event.priceId))
        /\ RenewalRows("u1") = 1

\* C24 (as claimed): the step that applies a renewal raises the user's
\* balance by the credits of the plan of its price id (5, 12 or 30),
\* appends one ledger row with that delta, and sets activePlan to the plan.
C24_RenewalAddsPlanCredits ==
    [][\A p \in Requests :
          ( /\ req[p].pc = "txCommit"
            /\ req'[p].result = "granted" )
          => LET u == req[p].user
                 plan == MatchedPlan(req[p].op.event.priceId)
             IN /\ plan \in {"basic", "pro", "max"}
                /\ users'[u].creditsRemaining
                      = users[u].creditsRemaining + PlanCreditsOf(plan)
                /\ creditsLedger' =
                      creditsLedger
                        (+) SetToBag({LedgerEntry(u, PlanCreditsOf(plan),
                                                  RenewalReason(plan), Null)})
                /\ users'[u].activePlan = plan]_vars

\* ------------------------------------------- claims (submission order)

\* The provider call of request p resolved with a task id.
ProviderAccepted(p) ==
    /\ req[p].op.kind = "createJob"
    /\ req[p].op.providerCalls = 1
    /\ req[p].op.kieTaskId # Null

\* C25: the step that debits the credit of a request finds its Job
\* QUEUED and the provider not yet called; the step in which the provider
\* is called finds the debit committed and consumeCredits returned true;
\* and a step that stores a provider id on a Job or a Video, or starts a
\* polling loop for it, finds a request whose provider call resolved with
\* that id.
C25_SubmissionOrder ==
    [][/\ \A p \in Requests :
            /\ JobRows(p, "video_generation")' > JobRows(p, "video_generation")
                  => /\ req[p].op.kind = "createJob"
                     /\ jobs[req[p].op.taskId] = QueuedJob
                     /\ req[p].op.providerCalls = 0
                     /\ req[p].op.kieTaskId = Null
            /\ ( /\ req[p].op.kind = "createJob"
                 /\ req'[p].op.providerCalls > req[p].op.providerCalls )
                  => /\ req[p].result = "true"
                     /\ JobRows(p, "video_generation") = 1
                     /\ jobs[req[p].op.taskId] = QueuedJob
       /\ \A k \in Tasks :
            ( \/ jobs[k] = NoJob /\ jobs'[k] # NoJob
              \/ videos[k] = NoVideo /\ videos'[k] # NoVideo
              \/ ~pollingControllers[k] /\ pollingControllers'[k] )
            => \E p \in Requests :
                  /\ ProviderAccepted(p)
                  /\ req[p].op.kieTaskId = k
                  /\ req[p].result = "true"]_vars

\* C25 witness: a request went through all the steps and was answered
\* 200: its Job is PROCESSING under the provider's id, debited once, and
\* its polling loop is registered.
C25_Witness ==
    \E p \in Submissions :
        /\ req[p].response = 200
        /\ ProviderAccepted(p)
        /\ JobRows(p, "video_generation") = 1
        /\ jobs[req[p].op.kieTaskId].status = "PROCESSING"
        /\ videos[req[p].op.kieTaskId] # NoVideo
        /\ pollingControllers[req[p].op.kieTaskId]

\* C26 (as claimed): a step that changes the status of a Job to
\* PROCESSING finds the Job QUEUED.
C26_ProcessingOnlyFromQueued ==
    [][\A t \in TaskIds :
          ( /\ jobs[t] # NoJob
            /\ jobs'[t] # NoJob
            /\ jobs'[t].status = "PROCESSING"
            /\ jobs[t].status # "PROCESSING" )
          => jobs[t].status = "QUEUED"]_vars

\* ------------------------------------------- claims (polling loop, ticks)

\* A tick of the loop of task t is running: it fired and has not returned.
TickInFlight(t) == poll[t].pc \notin {"none", "scheduled", "stopped"}

\* C27: with no callback, the step in which a lookup fails below the
\* attempt ceiling changes no Job and schedules one tick, the loop staying
\* registered; at the ceiling it schedules none and issues the FAILED
\* write, which stores the error's message; a loop that ended after a
\* failed lookup did so on the 30th tick with the Job FAILED for that
\* message.
C27_LookupErrorRetries ==
    /\ [][\A t \in Tasks :
             (poll[t].pc = "recordInfo" /\ poll'[t].lookup = "error")
             => /\ jobs' = jobs
                /\ IF poll[t].attempts < PollCeiling
                   THEN /\ poll'[t].pc = "scheduled"
                        /\ poll'[t].timers = poll[t].timers + 1
                        /\ poll'[t].timers = 1
                        /\ pollingControllers'[t]
                   ELSE /\ poll'[t].pc = "failJob"
                        /\ poll'[t].timers = 0]_vars
    /\ [][\A t \in Tasks :
             (poll[t].pc = "failJob" /\ poll[t].lookup = "error" /\ poll'[t] # poll[t])
             => /\ jobs'[t].status = "FAILED"
                /\ jobs'[t].errorReason = LookupErrorReason
                /\ poll'[t].timers = 0]_vars
    /\ [](\A t \in Tasks :
             (poll[t].lookup = "error" /\ poll[t].pc \in {"delete", "stopped"})
             => /\ jobs[t].status = "FAILED"
                /\ jobs[t].errorReason = LookupErrorReason
                /\ poll[t].attempts = PollCeiling
                /\ poll[t].timers = 0)

\* C27 witness: a lookup failed on a tick below the ceiling: the Job is
\* still PROCESSING and the next tick is scheduled.
C27_Witness ==
    \E t \in SubmittedTasks :
        /\ poll[t].lookup = "error"
        /\ poll[t].pc = "scheduled"
        /\ poll[t].attempts >= 1 /\ poll[t].attempts < PollCeiling
        /\ poll[t].timers = 1
        /\ pollingControllers[t]
        /\ jobs[t].status = "PROCESSING"

\* C28: a tick that fires after the callback handler aborted the
\* controller and removed the registry entry returns at once: no attempt
\* is counted, no lookup issued, no Job or Video written, no tick
\* scheduled; and a loop that has stopped takes no further step.
C28_CancelledTickInert ==
    /\ [][\A t \in Tasks :
             (poll[t].aborted /\ poll[t].pc = "scheduled" /\ poll'[t] # poll[t])
             => /\ poll'[t] = [poll[t] EXCEPT !.pc = "stopped", !.timers = 0]
                /\ UNCHANGED <<jobs, videos, writes, pollingControllers>>]_vars
    /\ [][\A t \in Tasks : poll[t].pc = "stopped" => poll'[t] = poll[t]]_vars

\* C28 witness: the callback cancelled the loop between two ticks and the
\* scheduled tick fired afterwards and returned.
C28_Witness ==
    \E t \in SubmittedTasks :
        /\ poll[t].aborted
        /\ poll[t].pc = "stopped"
        /\ poll[t].attempts = PollCeiling - TicksLeft
        /\ poll[t].timers = 0
        /\ writes[t].pollStatus = 0 /\ writes[t].pollVideo = 0
        /\ writes[t].whStatus >= 1

\* C29: when the callback handler reaches its cancellation and the
\* registry has no entry for the task (already cancelled, or the loop
\* ended on its own), the step changes no Job, Video, registry entry or
\* loop, and the handler goes on to its next statement.
C29_CancelIdempotent ==
    [][\A d \in Deliveries :
          ( /\ wh[d].pc = "abort"
            /\ wh'[d] # wh[d]
            /\ ~pollingControllers[wh[d].payload.taskId] )
          => /\ UNCHANGED <<jobs, videos, pollingControllers, poll>>
             /\ wh'[d] = [wh[d] EXCEPT !.pc = "video"]]_vars

\* C29 witness: two deliveries for one task both read the Job as not
\* READY and both went through the cancellation, the second finding the
\* entry already removed.
C29_Witness ==
    \E d, e \in Deliveries :
        /\ d # e
        /\ wh[d].payload.taskId = wh[e].payload.taskId
        /\ wh[d].payload.taskId \in SubmittedTasks
        /\ wh[d].foundJob /\ wh[e].foundJob
        /\ WhNeedsUpdate(wh[d].job) /\ WhNeedsUpdate(wh[e].job)
        /\ wh[d].pc = "done" /\ wh[e].pc = "done"
        /\ poll[wh[d].payload.taskId].aborted
        /\ ~pollingControllers[wh[d].payload.taskId]

\* C30: for every task id the pending timers and the tick in flight are
\* at most one together, and none without a loop; a registry entry belongs
\* to a loop that was started and has not stopped; and startPolling for a
\* task id that has an entry leaves the registry and the loops as they are.
C30_OneLoopPerTask ==
    \A t \in Tasks :
        /\ poll[t].timers + (IF TickInFlight(t) THEN 1 ELSE 0) <= 1
        /\ poll[t].timers = 1 <=> poll[t].pc = "scheduled"
        /\ pollingControllers[t] => poll[t].pc \notin {"none", "stopped"}
        /\ pollingControllers[t] =>
              startPolling(pollingControllers, poll, t) = <<pollingControllers, poll>>

\* C30 witness: the loop of an accepted request ran its first tick, found
\* no result and scheduled the next one.
C30_Witness ==
    \E p \in Submissions :
        /\ req[p].response = 200
        /\ pollingControllers[req[p].op.kieTaskId]
        /\ poll[req[p].op.kieTaskId].attempts = 1
        /\ poll[req[p].op.kieTaskId].pc = "scheduled"
        /\ poll[req[p].op.kieTaskId].timers = 1

\* ------------------------------------------- claims (callback handler)

\* Deliveries the handler has answered.
Handled == { d \in Deliveries : wh[d].pc = "done" }

\* C31 (as claimed): when the handler has answered a callback whose task
\* id matched no Job, a Job for that task id exists, READY when the
\* callback reported success with a result and FAILED when it reported a
\* failure.
C31_UnknownTaskJobCreated ==
    \A d \in Handled :
        ~wh[d].foundJob =>
            /\ whAfter[d].job # NoJob
            /\ whAfter[d].job.status \in Terminal
            /\ IsSuccessWithUrls(wh[d].payload) => whAfter[d].job.status = "READY"
            /\ wh[d].payload.code # SuccessCode => whAfter[d].job.status = "FAILED"

\* C32 (as claimed): when the handler has answered a callback for a Job
\* it read as not yet terminal, the Job is READY with the Video holding
\* the callback's URL, resolution and fallback flag if the code was 200,
\* and FAILED with the callback's message otherwise; and the only
\* callback handled for a task wrote the status once.
C32_CallbackDecidesOnce ==
    \A d \in Handled :
        (wh[d].foundJob /\ wh[d].job.status \notin Terminal) =>
            LET cb == wh[d].payload IN
            /\ cb.code = SuccessCode =>
                  /\ whAfter[d].job.status = "READY"
                  /\ Len(cb.resultUrls) > 0
                  /\ whAfter[d].video.providerVideoUrl = cb.resultUrls[1]
                  /\ whAfter[d].video.resolution = cb.resolution
                  /\ whAfter[d].video.fallbackFlag = cb.fallbackFlag
            /\ cb.code # SuccessCode =>
                  /\ whAfter[d].job.status = "FAILED"
                  /\ whAfter[d].job.errorReason = cb.msg
            /\ DeliveriesFor(cb.taskId) = {d} => writes[cb.taskId].whStatus = 1

\* C33 (as claimed): the Video step of a handler that read its Job as
\* terminal leaves a Video that has a provider URL unchanged.
C33_PopulatedVideoKept ==
    [][\A d \in Deliveries :
          ( /\ wh[d].pc = "video"
            /\ wh'[d] # wh[d]
            /\ wh[d].foundJob
            /\ wh[d].job.status \in Terminal
            /\ videos[wh[d].payload.taskId] # NoVideo
            /\ videos[wh[d].payload.taskId].providerVideoUrl # Null )
          => videos'[wh[d].payload.taskId] = videos[wh[d].payload.taskId]]_vars

\* C34 (as claimed): a Job that carries an errorReason is FAILED.
C34_ErrorReasonOnlyOnFailed ==
    \A t \in Tasks :
        (jobs[t] # NoJob /\ jobs[t].errorReason # Null) => jobs[t].status = "FAILED"

\* C35 (as claimed): a READY Job has a Video under the same task id whose
\* providerVideoUrl is set.
C35_ReadyJobHasVideoUrl ==
    \A t \in Tasks :
        (jobs[t] # NoJob /\ jobs[t].status = "READY")
        => (videos[t] # NoVideo /\ videos[t].providerVideoUrl # Null)

\* Ledger rows with the reason refund.
RefundRows ==
    CountRows(creditsLedger, { e \in BagToSet(creditsLedger) : e.reason = "refund" })

\* C36: no step of a callback handler or of a polling loop changes a
\* user's balance or the ledger, and the ledger never holds a refund row.
C36_ReconciliationKeepsCredits ==
    /\ [][(wh' # wh \/ poll' # poll) => UNCHANGED <<users, creditsLedger>>]_vars
    /\ [](RefundRows = 0 /\ users["u1"].creditsRemaining = credits0)

\* C36 witness: the polling loop failed the Job at the ceiling after a
\* failure callback and a replay of it were handled; the balance and the
\* ledger are as they were.
C36_Witness ==
    \E t \in SubmittedTasks :
        /\ jobs[t].status = "FAILED"
        /\ writes[t].pollStatus >= 1
        /\ poll[t].pc = "stopped"
        /\ \A d \in Deliveries :
              /\ wh[d].pc = "done"
              /\ wh[d].payload.taskId = t
              /\ wh[d].payload.code # SuccessCode
        /\ users["u1"].creditsRemaining = credits0
        /\ creditsLedger = SetToBag({LedgerEntry("u1", credits0, "promo", Null)})

\* ---------------------------------------------------------------------
\* claims (validation, pairing of Job and Video)
\* ---------------------------------------------------------------------

\* A request body with an empty prompt or a seed outside 10000..99999.
InvalidBody(body) ==
    \/ Len(body.prompt) = 0
    \/ \E sd \in body.seeds : sd < 10000 \/ sd > 99999

\* C37: the step that takes up a submission with an invalid body answers
\* it at once and changes no Job, no Video, no balance, no ledger row and
\* no polling loop; a request with an invalid body never has a provider
\* call, a Job, a Video or a ledger row of its own.
C37_InvalidRequestNoSideEffects ==
    /\ [][\A p \in Requests :
            (/\ req[p].pc = "idle"
             /\ req'[p].op.kind = "createJob"
             /\ InvalidBody(req'[p].op.body))
            => /\ UNCHANGED <<jobs, videos, users, creditsLedger,
                              pollingControllers, poll>>
               /\ req'[p].pc = "done"
               /\ req'[p].response = 400]_vars
    /\ [](\A p \in Requests :
            (req[p].op.kind = "createJob" /\ InvalidBody(req[p].op.body))
            => /\ req[p].op.providerCalls = 0
               /\ req[p].op.kieTaskId = Null
               /\ jobs[PlaceholderOf(p)] = NoJob
               /\ videos[PlaceholderOf(p)] = NoVideo
               /\ JobRows(p, "video_generation") = 0)

\* C37 witness: one request with an out-of-range seed was answered 400
\* and left nothing behind, while a valid request was debited.
C37_Witness ==
    \E p, q \in Requests :
        /\ req[p].op.kind = "createJob"
        /\ req[p].op.body.seeds = {100000}
        /\ req[p].response = 400
        /\ jobs[PlaceholderOf(p)] = NoJob
        /\ req[q].op.kind = "createJob"
        /\ ~InvalidBody(req[q].op.body)
        /\ req[q].result = "true"
        /\ JobRows(q, "video_generation") = 1

\* C38 (as claimed): once a submission request has been answered, the
\* task id of its Job holds a Video and the task id of its Video holds a
\* Job.
C38_JobVideoPaired ==
    \A p \in Requests :
        (req[p].op.kind = "createJob" /\ req[p].response # 0)
        => \A t \in {PlaceholderOf(p), req[p].op.kieTaskId} \ {Null} :
              (jobs[t] # NoJob) <=> (videos[t] # NoVideo)

\* ---------------------------------------------------------------------
\* claims (rate limiter)
\* ---------------------------------------------------------------------

\* The requests of "u1" that passed the limiter in the window its entry
\* describes.
PassedInWindow ==
    IF rateLimit["u1"] = NoLimit THEN 0
    ELSE Cardinality({ i \in DOMAIN passLog :
                         /\ passLog[i] >= rateLimit["u1"].resetTime - 60000
                         /\ passLog[i] <= rateLimit["u1"].resetTime })

\* A request arriving now falls in the window of the entry of "u1".
InWindow == rateLimit["u1"] # NoLimit /\ now <= rateLimit["u1"].resetTime

\* C39: at most 5 requests of a user pass the limiter in one window, and
\* the entry counts them; a request taken up while 5 have passed in the
\* running window is answered 429 and changes no Job, no Video, no
\* balance, no ledger row, no polling loop and no provider call; 429 is
\* answered in no other case; a request taken up after resetTime, or with
\* no entry, passes and starts a window of 60 seconds with count 1.
C39_RateLimitWindow ==
    /\ [](PassedInWindow <= 5)
    /\ [](rateLimit["u1"] # NoLimit => rateLimit["u1"].count = PassedInWindow)
    /\ [][\A p \in Requests :
            (req[p].pc = "idle" /\ req'[p].pc # "idle")
            => IF InWindow /\ PassedInWindow >= 5
               THEN /\ req'[p].response = 429
                    /\ req'[p].op.kind = "limited"
                    /\ UNCHANGED <<jobs, videos, users, creditsLedger,
                                   pollingControllers, poll, passLog, rateLimit>>
               ELSE /\ req'[p].response # 429
                    /\ passLog' = Append(passLog, now)
                    /\ InWindow
                       => /\ rateLimit'["u1"].resetTime = rateLimit["u1"].resetTime
                          /\ PassedInWindow' = PassedInWindow + 1
                    /\ ~InWindow
                       => rateLimit'["u1"] = [count |-> 1, resetTime |-> now + 60000]]_vars

\* C39 witness: the fifth request of the window passed and its Job is
\* there, the next one was answered 429 before resetTime, and nothing but
\* the first one's Job and debit exists.
C39_Witness ==
    /\ req[1].op.kind = "createJob"
    /\ req[1].result = "true"
    /\ req[2].response = 429
    /\ rateLimit["u1"].count = 5
    /\ PassedInWindow = 5
    /\ now <= rateLimit["u1"].resetTime
    /\ jobs[PlaceholderOf(2)] = NoJob
    /\ JobRows(2, "video_generation") = 0
    /\ JobRows(1, "video_generation") = 1

====
